---- MODULE Spec2Model ----
(***************************************************************************)
(* HTTP message signatures of the agentic-commerce backend and MCP client. *)
(*                                                                         *)
(* Strings are sequences of one-character strings, so that the regular     *)
(* expressions, split/replace/trim and parseInt of middleware.js are       *)
(* computed character by character.  Header values never hold a line       *)
(* terminator (Node refuses them), so `.` matches every character here.    *)
(* An Ed25519 signature is the pair (signing key, signed message): it      *)
(* verifies under a public key iff the key is the matching private key and *)
(* the message is the one signed.                                          *)
(*                                                                         *)
(* A request goes through the routes of server.js: verifySignature where   *)
(* the route has it, up to its await and on from it, and then the handler, *)
(* which reads and writes the tables of database.js.                       *)
(***************************************************************************)
EXTENDS Integers, Sequences, FiniteSets, TLC



\* ------------------------------------------------------------------------
\* Characters and small string helpers
\* ------------------------------------------------------------------------

Digits == <<"0", "1", "2", "3", "4", "5", "6", "7", "8", "9">>

DigitCh == {Digits[i] : i \in 1..10}

LowerCh == {"a", "b", "c", "d", "e", "f", "g", "h", "i", "j", "k", "l", "m",
            "n", "o", "p", "q", "r", "s", "t", "u", "v", "w", "x", "y", "z"}

UpperCh == {"A", "B", "C", "D", "E", "F", "G", "H", "I", "J", "K", "L", "M",
            "N", "O", "P", "Q", "R", "S", "T", "U", "V", "W", "X", "Y", "Z"}

\* \w of a JavaScript regular expression
WordCh == LowerCh \cup UpperCh \cup DigitCh \cup {"_"}

\* what String.prototype.trim and parseInt skip
WhiteSpace == {" ", "\t"}

\* the value JavaScript calls undefined (no string is equal to it)
Undefined == <<"undefined">>

Min(S) == CHOOSE x \in S : \A y \in S : x <= y

\* s.slice(i - 1): the characters from position i on
From(s, i) == SubSeq(s, i, Len(s))

\* positions at which the literal lit occurs in s
Occurrences(s, lit) ==
    {i \in 1..(Len(s) - Len(lit) + 1) : SubSeq(s, i, i + Len(lit) - 1) = lit}

\* s.replace(/"/g, '')
NotQuote(c) == c # "\""

StripQuotes(s) == SelectSeq(s, NotQuote)

\* s.trim()
Trim(s) ==
    LET keep == {i \in 1..Len(s) : s[i] \notin WhiteSpace}
    IN  IF keep = {} THEN <<>>
        ELSE SubSeq(s, Min(keep), CHOOSE j \in keep : \A k \in keep : k <= j)

\* s.split(' '): always at least one piece, empty pieces kept
RECURSIVE Split(_)
Split(s) ==
    LET sp == {i \in 1..Len(s) : s[i] = " "}
    IN  IF sp = {} THEN <<s>>
        ELSE <<SubSeq(s, 1, Min(sp) - 1)>> \o Split(From(s, Min(sp) + 1))

\* lines.join('\n')
RECURSIVE Join(_)
Join(lines) ==
    IF lines = <<>> THEN <<>>
    ELSE IF Len(lines) = 1 THEN lines[1]
    ELSE lines[1] \o <<"\n">> \o Join(Tail(lines))

\* `${n}` for a non-negative integer n
RECURSIVE ToDec(_)
ToDec(n) ==
    IF n < 10 THEN <<Digits[n + 1]>>
    ELSE ToDec(n \div 10) \o <<Digits[(n % 10) + 1]>>

DigitVal(c) == CHOOSE d \in 0..9 : Digits[d + 1] = c

RECURSIVE DecPrefix(_, _, _)
\* value of the longest run of decimal digits at the start of s;
\* seen = whether a digit has been read
DecPrefix(s, acc, seen) ==
    IF s # <<>> /\ Head(s) \in DigitCh
    THEN DecPrefix(Tail(s), 10 * acc + DigitVal(Head(s)), TRUE)
    ELSE [ok |-> seen, n |-> acc]

NaN == [ok |-> FALSE, n |-> 0]

\* parseInt(v) of a decimal string: leading white space skipped, optional
\* sign, then the longest digit prefix; NaN when there is none and for
\* undefined.  (No string of the model starts with 0x.)
ParseInt(v) ==
    IF v = Undefined THEN NaN
    ELSE LET skip == {i \in 1..Len(v) : v[i] \notin WhiteSpace}
             t    == IF skip = {} THEN <<>> ELSE From(v, Min(skip))
             neg  == t # <<>> /\ Head(t) = "-"
             u    == IF t # <<>> /\ Head(t) \in {"-", "+"} THEN Tail(t) ELSE t
             r    == DecPrefix(u, 0, FALSE)
         IN  IF neg THEN [ok |-> r.ok, n |-> 0 - r.n] ELSE r

\* ------------------------------------------------------------------------
\* middleware.js: header parsing
\* ------------------------------------------------------------------------

LitSig1Paren == <<"s", "i", "g", "1", "=", "(">>
LitCloseSemi == <<")", ";">>
LitSig1Colon == <<"s", "i", "g", "1", "=", ":">>
LitSig1Eq    == <<"s", "i", "g", "1", "=">>
KeyComponents == <<"c", "o", "m", "p", "o", "n", "e", "n", "t", "s">>
KeyKeyid   == <<"k", "e", "y", "i", "d">>
KeyCreated == <<"c", "r", "e", "a", "t", "e", "d">>
KeyExpires == <<"e", "x", "p", "i", "r", "e", "s">>
KeyAlg     == <<"a", "l", "g">>

\* the value thrown into the catch block of verifySignature
ParseError == [error |-> TRUE]

\* signatureInput.match(/sig1=\((.*?)\);(.+)/): the leftmost `sig1=(`, the
\* shortest group 1 followed by `);` and by at least one more character.
\* A close that serves a later start serves the leftmost one as well.
SigInputMatch(s) ==
    LET starts == Occurrences(s, LitSig1Paren)
    IN  IF starts = {} THEN ParseError
        ELSE LET a      == Min(starts) + Len(LitSig1Paren)
                 closes == {j \in Occurrences(s, LitCloseSemi) :
                               j >= a /\ j + 2 <= Len(s)}
             IN  IF closes = {} THEN ParseError
                 ELSE [error |-> FALSE,
                       g1 |-> SubSeq(s, a, Min(closes) - 1),
                       g2 |-> From(s, Min(closes) + 2)]

\* end of the run of \w characters that starts at position p
RECURSIVE WordEnd(_, _)
WordEnd(s, p) ==
    IF p + 1 <= Len(s) /\ s[p + 1] \in WordCh THEN WordEnd(s, p + 1) ELSE p

\* first position >= p holding character c, or 0
FirstAt(s, p, c) ==
    LET at == {i \in p..Len(s) : s[i] = c}
    IN  IF at = {} THEN 0 ELSE Min(at)

\* one match of /(\w+)=("[^"]+"|[^;]+)/ starting exactly at position p,
\* as [ok, key, value, end]: a maximal \w run, `=`, then a quoted value
\* with at least one character inside or else everything up to the next `;`
ParamMatchAt(s, p) ==
    LET e  == WordEnd(s, p)
        v  == e + 2
        q  == FirstAt(s, v + 1, "\"")
        sc == FirstAt(s, v, ";")
        last == IF sc = 0 THEN Len(s) ELSE sc - 1
        fail == [ok |-> FALSE, key |-> <<>>, value |-> <<>>, end |-> 0]
    IN  IF ~(p <= Len(s) /\ s[p] \in WordCh) THEN fail
        ELSE IF ~(e + 1 <= Len(s) /\ s[e + 1] = "=") THEN fail
        ELSE IF v > Len(s) THEN fail
        ELSE IF s[v] = "\"" /\ q >= v + 2
             THEN [ok |-> TRUE, key |-> SubSeq(s, p, e),
                   value |-> SubSeq(s, v, q), end |-> q]
        ELSE IF s[v] = ";" THEN fail
        ELSE [ok |-> TRUE, key |-> SubSeq(s, p, e),
              value |-> SubSeq(s, v, last), end |-> last]

\* paramString.matchAll(...): the matches from position pos on, left to
\* right, each as <<key, value.replace(/"/g, '').trim()>>.  A match that
\* starts inside a run of \w characters implies one that starts at the
\* first character of the run at or after pos, so the leftmost match starts
\* at pos or at the first character of a run.
RECURSIVE ParamMatches(_, _)
ParamMatches(s, pos) ==
    LET hits == {p \in pos..Len(s) :
                    /\ s[p] \in WordCh
                    /\ (p = pos \/ s[p - 1] \notin WordCh)
                    /\ ParamMatchAt(s, p).ok}
    IN  IF hits = {} THEN <<>>
        ELSE LET m == ParamMatchAt(s, Min(hits))
             IN  <<<<m.key, Trim(StripQuotes(m.value))>>>>
                     \o ParamMatches(s, m.end + 1)

\* params[key] after the loop: the last assignment wins
Param(pairs, key) ==
    LET at == {i \in 1..Len(pairs) : pairs[i][1] = key}
    IN  IF at = {} THEN Undefined
        ELSE pairs[CHOOSE i \in at : \A j \in at : j <= i][2]

\* one-character strings of a string (for ... of over a string)
Chars(s) == [i \in 1..Len(s) |-> <<s[i]>>]

RECURSIVE MapStripQuotes(_)
MapStripQuotes(parts) ==
    IF parts = <<>> THEN <<>>
    ELSE <<StripQuotes(Head(parts))>> \o MapStripQuotes(Tail(parts))

\* parseSignatureInput: { components, ...params }; a parameter named
\* components replaces the parsed list
parseSignatureInput(signatureInput) ==
    LET m == SigInputMatch(signatureInput)
    IN  IF m.error THEN ParseError
        ELSE LET pairs == ParamMatches(m.g2, 1)
                 over  == Param(pairs, KeyComponents)
             IN  [error |-> FALSE,
                  components |-> IF over = Undefined
                                 THEN MapStripQuotes(Split(m.g1))
                                 ELSE Chars(over),
                  pairs |-> pairs]

\* parseSignature: signatureHeader.match(/sig1=:([^:]+):/)[1]
parseSignature(signatureHeader) ==
    LET ok == {i \in Occurrences(signatureHeader, LitSig1Colon) :
                 \E j \in (i + 7)..Len(signatureHeader) :
                    /\ signatureHeader[j] = ":"
                    /\ \A k \in (i + 6)..(j - 1) : signatureHeader[k] # ":"}
    IN  IF ok = {} THEN ParseError
        ELSE LET a == Min(ok) + 6
                 j == Min({k \in a..Len(signatureHeader) : signatureHeader[k] = ":"})
             IN  [error |-> FALSE, value |-> SubSeq(signatureHeader, a, j - 1)]

\* ------------------------------------------------------------------------
\* Bytes, base64 and hex (Buffer, TextEncoder)
\* ------------------------------------------------------------------------

\* the printable ASCII characters, code 32 first (code 96 is not used by
\* any string of the model)
Ascii == <<" ", "!", "\"", "#", "$", "%", "&", "'", "(", ")", "*", "+", ",",
           "-", ".", "/", "0", "1", "2", "3", "4", "5", "6", "7", "8", "9",
           ":", ";", "<", "=", ">", "?", "@", "A", "B", "C", "D", "E", "F",
           "G", "H", "I", "J", "K", "L", "M", "N", "O", "P", "Q", "R", "S",
           "T", "U", "V", "W", "X", "Y", "Z", "[", "\\", "]", "^", "_", "grave",
           "a", "b", "c", "d", "e", "f", "g", "h", "i", "j", "k", "l", "m",
           "n", "o", "p", "q", "r", "s", "t", "u", "v", "w", "x", "y", "z",
           "{", "|", "}", "~">>

\* c.charCodeAt(0), as a table
AsciiCode ==
    [c \in {Ascii[i] : i \in 1..Len(Ascii)} \cup {"\n", "\t"} |->
        IF c = "\n" THEN 10
        ELSE IF c = "\t" THEN 9
        ELSE 31 + (CHOOSE i \in 1..Len(Ascii) : Ascii[i] = c)]

CharCode(c) == AsciiCode[c]

\* new TextEncoder().encode(s) for ASCII text
TextEncode(s) == [i \in 1..Len(s) |-> CharCode(s[i])]

B64Alphabet == <<"A", "B", "C", "D", "E", "F", "G", "H", "I", "J", "K", "L",
                 "M", "N", "O", "P", "Q", "R", "S", "T", "U", "V", "W", "X",
                 "Y", "Z", "a", "b", "c", "d", "e", "f", "g", "h", "i", "j",
                 "k", "l", "m", "n", "o", "p", "q", "r", "s", "t", "u", "v",
                 "w", "x", "y", "z", "0", "1", "2", "3", "4", "5", "6", "7",
                 "8", "9", "+", "/">>

B64Ch(n) == B64Alphabet[n + 1]

\* Buffer.from(bytes).toString('base64'): three bytes give four
\* characters, the last group padded with `=`
ToBase64(b) ==
    LET n == Len(b)
        byte(i) == IF i <= n THEN b[i] ELSE 0
        ch(j) ==
            LET g == (j - 1) \div 4
                k == (j - 1) % 4
                b1 == byte(3 * g + 1)
                b2 == byte(3 * g + 2)
                b3 == byte(3 * g + 3)
            IN  IF k = 0 THEN B64Ch(b1 \div 4)
                ELSE IF k = 1 THEN B64Ch((b1 % 4) * 16 + b2 \div 16)
                ELSE IF k = 2
                THEN IF 3 * g + 2 > n THEN "="
                     ELSE B64Ch((b2 % 16) * 4 + b3 \div 64)
                ELSE IF 3 * g + 3 > n THEN "=" ELSE B64Ch(b3 % 64)
    IN  [j \in 1..(4 * ((n + 2) \div 3)) |-> ch(j)]

\* value of each base64 character; the URL-safe - and _ are accepted too
B64Table ==
    [c \in {B64Alphabet[i] : i \in 1..64} \cup {"-", "_"} |->
        IF c = "-" THEN 62
        ELSE IF c = "_" THEN 63
        ELSE (CHOOSE i \in 1..64 : B64Alphabet[i] = c) - 1]

\* -1 for a character outside the alphabet
B64Val(c) == IF c \in DOMAIN B64Table THEN B64Table[c] ELSE -1

InB64Alphabet(c) == B64Val(c) >= 0

\* the sextets Node reads: it stops at the first `=` and skips every
\* character outside the alphabet
Sextets(s) ==
    LET pad  == FirstAt(s, 1, "=")
        body == SelectSeq(IF pad = 0 THEN s ELSE SubSeq(s, 1, pad - 1),
                          InB64Alphabet)
    IN  [i \in 1..Len(body) |-> B64Val(body[i])]

\* four sextets give three bytes; a last group of two or three sextets
\* gives one or two bytes, a lone last sextet none
SextetsToBytes(x) ==
    LET byte(i) ==
            LET g == (i - 1) \div 3
                r == (i - 1) % 3
            IN  IF r = 0 THEN x[4 * g + 1] * 4 + x[4 * g + 2] \div 16
                ELSE IF r = 1
                THEN (x[4 * g + 2] % 16) * 16 + x[4 * g + 3] \div 4
                ELSE (x[4 * g + 3] % 4) * 64 + x[4 * g + 4]
    IN  [i \in 1..((Len(x) * 3) \div 4) |-> byte(i)]

\* Buffer.from(s, 'base64')
FromBase64(s) == SextetsToBytes(Sextets(s))

HexDigits == <<"0", "1", "2", "3", "4", "5", "6", "7", "8", "9",
               "a", "b", "c", "d", "e", "f">>
HexUpper == <<"0", "1", "2", "3", "4", "5", "6", "7", "8", "9",
              "A", "B", "C", "D", "E", "F">>

HexVal(c) ==
    IF \E i \in 1..16 : HexDigits[i] = c
    THEN (CHOOSE i \in 1..16 : HexDigits[i] = c) - 1
    ELSE IF \E i \in 1..16 : HexUpper[i] = c
    THEN (CHOOSE i \in 1..16 : HexUpper[i] = c) - 1
    ELSE -1

\* Buffer.from(bytes).toString('hex')
RECURSIVE ToHex(_)
ToHex(b) ==
    IF b = <<>> THEN <<>>
    ELSE <<HexDigits[(Head(b) \div 16) + 1], HexDigits[(Head(b) % 16) + 1]>>
             \o ToHex(Tail(b))

\* Buffer.from(s, 'hex'): whole pairs of hex digits, up to the first pair
\* that is not one
RECURSIVE FromHex(_)
FromHex(s) ==
    IF Len(s) < 2 \/ HexVal(s[1]) < 0 \/ HexVal(s[2]) < 0 THEN <<>>
    ELSE <<HexVal(s[1]) * 16 + HexVal(s[2])>> \o FromHex(SubSeq(s, 3, Len(s)))

\* ------------------------------------------------------------------------
\* Ed25519 (@noble/ed25519), idealised
\* ------------------------------------------------------------------------

\* number of key pairs in existence
NumKeys == 2

PrivateKeys == 1..NumKeys

\* ed25519.getPublicKey(privateKey), as bytes
getPublicKey(privateKey) == <<160 + privateKey>>

\* ed25519.sign(message, privateKey): deterministic, and one-to-one in the
\* key and the message
ed25519Sign(message, privateKey) == <<privateKey>> \o message

\* ed25519.verify(signature, message, publicKey)
ed25519Verify(signature, message, publicKey) ==
    \E k \in PrivateKeys :
        getPublicKey(k) = publicKey /\ signature = ed25519Sign(message, k)

\* ed25519.verify throws for a public key that has not the length of one
ed25519Throws(publicKey) == Len(publicKey) # Len(getPublicKey(1))

\* generateKeypair: the public half in hex, the private half kept abstract
generateKeypair(k) == [privateKey |-> k, publicKey |-> ToHex(getPublicKey(k))]

\* ------------------------------------------------------------------------
\* signature.js: generateSignature
\* ------------------------------------------------------------------------

FreshnessSeconds == 60

LitParamsHead == <<"(", "\"", "@", "a", "u", "t", "h", "o", "r", "i", "t", "y",
                   "\"", " ", "\"", "@", "p", "a", "t", "h", "\"", ")", ";",
                   " ", "c", "r", "e", "a", "t", "e", "d", "=">>
LitExpires == <<";", " ", "e", "x", "p", "i", "r", "e", "s", "=">>
LitKeyid   == <<";", " ", "k", "e", "y", "i", "d", "=", "\"">>
LitAlgNonce == <<"\"", ";", " ", "a", "l", "g", "=", "\"", "e", "d", "2", "5",
                 "5", "1", "9", "\"", ";", " ", "n", "o", "n", "c", "e", "=",
                 "\"">>
LitTag == <<"\"", ";", " ", "t", "a", "g", "=", "\"", "a", "g", "e", "n", "t",
            "-", "p", "a", "y", "e", "r", "-", "a", "u", "t", "h", "\"">>
LitAuthorityLine == <<"\"", "@", "a", "u", "t", "h", "o", "r", "i", "t", "y",
                      "\"", ":", " ">>
LitPathLine == <<"\"", "@", "p", "a", "t", "h", "\"", ":", " ">>
LitParamsLine == <<"\"", "@", "s", "i", "g", "n", "a", "t", "u", "r", "e", "-",
                   "p", "a", "r", "a", "m", "s", "\"", ":", " ">>
LitAgentName == <<"c", "l", "a", "u", "d", "e", "-", "d", "e", "s", "k", "t",
                  "o", "p", "-", "a", "g", "e", "n", "t">>
LitEd25519 == <<"e", "d", "2", "5", "5", "1", "9">>
CompAuthority == <<"@", "a", "u", "t", "h", "o", "r", "i", "t", "y">>
CompPath == <<"@", "p", "a", "t", "h">>
LitDefaultHost == <<"l", "o", "c", "a", "l", "h", "o", "s", "t", ":", "8", "0",
                    "0", "0">>

\* the template literal of signature.js line 24
SignatureParams(created, expires, keyId, nonce) ==
    LitParamsHead \o ToDec(created) \o LitExpires \o ToDec(expires)
        \o LitKeyid \o keyId \o LitAlgNonce \o nonce \o LitTag

\* a variant of generateSignature whose signatures last two minutes
TwoMinuteSignature(authority, path, keyId, privateKey, now, nonce) ==
    LET created == now
        expires == created + 2 * FreshnessSeconds
        signatureParams == SignatureParams(created, expires, keyId, nonce)
        signatureBase == Join(<<LitAuthorityLine \o authority,
                                LitPathLine \o path,
                                LitParamsLine \o signatureParams>>)
        signature == ed25519Sign(TextEncode(signatureBase), privateKey)
    IN  [sigInput |-> LitSig1Eq \o signatureParams,
         sig      |-> LitSig1Colon \o ToBase64(signature) \o <<":">>,
         sigAgent |-> LitAgentName]

NotBlank(c) == c # " "

\* a variant of generateSignature that signs the parameter string and writes
\* the Signature-Input header from it anew, without the blanks
RenderedTwice(authority, path, keyId, privateKey, now, nonce) ==
    LET created == now
        expires == created + FreshnessSeconds
        signatureParams == SignatureParams(created, expires, keyId, nonce)
        signatureBase == Join(<<LitAuthorityLine \o authority,
                                LitPathLine \o path,
                                LitParamsLine \o signatureParams>>)
        signature == ed25519Sign(TextEncode(signatureBase), privateKey)
    IN  [sigInput |-> LitSig1Eq \o SelectSeq(signatureParams, NotBlank),
         sig      |-> LitSig1Colon \o ToBase64(signature) \o <<":">>,
         sigAgent |-> LitAgentName]

\* headers for one outbound request; now is Math.floor(Date.now() / 1000)
\* and nonce is randomBytes(16).toString('hex')
generateSignature(authority, path, keyId, privateKey, now, nonce) ==
    LET created == now
        expires == created + FreshnessSeconds
        signatureParams == SignatureParams(created, expires, keyId, nonce)
        signatureBase == Join(<<LitAuthorityLine \o authority,
                                LitPathLine \o path,
                                LitParamsLine \o signatureParams>>)
        signature == ed25519Sign(TextEncode(signatureBase), privateKey)
    IN  [sigInput |-> LitSig1Eq \o signatureParams,
         sig      |-> LitSig1Colon \o ToBase64(signature) \o <<":">>,
         sigAgent |-> LitAgentName]

\* README.md, Quick Example, Agent Side: any other RFC 9421 client.  It
\* writes the same parameters in the same order and chooses created,
\* expires and alg itself.
LitAlg == <<"\"", ";", " ", "a", "l", "g", "=", "\"">>
LitNonce == <<"\"", ";", " ", "n", "o", "n", "c", "e", "=", "\"">>

ForeignParams(created, expires, keyId, alg, nonce) ==
    LitParamsHead \o ToDec(created) \o LitExpires \o ToDec(expires)
        \o LitKeyid \o keyId \o LitAlg \o alg \o LitNonce \o nonce \o LitTag

ForeignSignature(authority, path, privateKey, signatureParams) ==
    LET signatureBase == Join(<<LitAuthorityLine \o authority,
                                LitPathLine \o path,
                                LitParamsLine \o signatureParams>>)
        signature == ed25519Sign(TextEncode(signatureBase), privateKey)
    IN  [sigInput |-> LitSig1Eq \o signatureParams,
         sig      |-> LitSig1Colon \o ToBase64(signature) \o <<":">>,
         sigAgent |-> Undefined]

\* ------------------------------------------------------------------------
\* middleware.js: buildSignatureBase, verifyEd25519Signature, verifySignature
\* ------------------------------------------------------------------------

ClockSkewSeconds == 60
MaxValiditySeconds == 300

\* a value JavaScript treats as false in `!x` or `x || y`
Falsy(v) == v = Undefined \/ v = <<>>

RECURSIVE ComponentLines(_, _)
ComponentLines(req, components) ==
    IF components = <<>> THEN <<>>
    ELSE LET c == Head(components)
             line == IF c = CompAuthority
                     THEN <<LitAuthorityLine \o
                              (IF Falsy(req.host) THEN LitDefaultHost ELSE req.host)>>
                     ELSE IF c = CompPath
                     THEN <<LitPathLine \o req.url>>
                     ELSE <<>>
         IN  line \o ComponentLines(req, Tail(components))

KeyNonce == <<"n", "o", "n", "c", "e">>

\* a variant of buildSignatureBase that writes the @signature-params line
\* again from the parsed parameters instead of copying the header text
BaseFromParsed(req, components, signatureInput) ==
    LET pairs   == parseSignatureInput(signatureInput).pairs
        created == ParseInt(Param(pairs, KeyCreated)).n
        expires == ParseInt(Param(pairs, KeyExpires)).n
        text(v) == IF v = Undefined THEN <<>> ELSE v
    IN  Join(ComponentLines(req, components)
               \o <<LitParamsLine \o
                    SignatureParams(IF created < 0 THEN 0 ELSE created,
                                    IF expires < 0 THEN 0 ELSE expires,
                                    text(Param(pairs, KeyKeyid)),
                                    text(Param(pairs, KeyNonce)))>>)

\* the text after the leftmost `sig1=`; parseSignatureInput has matched,
\* so there is one and something follows it
buildSignatureBase(req, components, signatureInput) ==
    LET at == Min(Occurrences(signatureInput, LitSig1Eq))
        signatureParams == From(signatureInput, at + Len(LitSig1Eq))
    IN  Join(ComponentLines(req, components)
               \o <<LitParamsLine \o signatureParams>>)

\* any exception of the library (a signature or key of the wrong shape)
\* is caught and gives false, like a signature that does not verify
verifyEd25519Signature(signatureBase, signatureB64, publicKeyHex) ==
    IF ed25519Throws(FromHex(publicKeyHex)) THEN FALSE
    ELSE ed25519Verify(FromBase64(signatureB64), TextEncode(signatureBase),
                       FromHex(publicKeyHex))

LitRegisterPath == <<"/", "a", "p", "i", "/", "r", "e", "g", "i", "s", "t", "r",
                     "y", "/", "r", "e", "g", "i", "s", "t", "e", "r">>

\* req.path: the URL without its query string
PathOf(url) ==
    LET q == FirstAt(url, 1, "?")
    IN  IF q = 0 THEN url ELSE SubSeq(url, 1, q - 1)

NoAgent == [id |-> Undefined, name |-> Undefined]

\* a 401 answer; stage names the step of verifySignature that gave it
Reject(stage, error, message) ==
    [next |-> FALSE, status |-> 401, error |-> error, message |-> message,
     agent |-> NoAgent, stage |-> stage]

\* next() was called; agent is what was attached as req.agent
Accept(stage, agent) ==
    [next |-> TRUE, status |-> 0, error |-> "", message |-> "",
     agent |-> agent, stage |-> stage]

\* variants of the timestamp checks with one comparison moved by a second;
\* the boundary properties tell each of them from TimestampError
ExpiryInclusive(created, expires, now) ==
    IF created.n = 0 \/ expires.n = 0 \/ ~created.ok \/ ~expires.ok
    THEN "Invalid timestamp"
    ELSE IF created.n > now + ClockSkewSeconds THEN "Signature from future"
    ELSE IF expires.n <= now THEN "Signature expired"
    ELSE IF expires.n - created.n > MaxValiditySeconds
    THEN "Signature validity too long"
    ELSE ""

SkewExclusive(created, expires, now) ==
    IF created.n = 0 \/ expires.n = 0 \/ ~created.ok \/ ~expires.ok
    THEN "Invalid timestamp"
    ELSE IF created.n >= now + ClockSkewSeconds THEN "Signature from future"
    ELSE IF expires.n < now THEN "Signature expired"
    ELSE IF expires.n - created.n > MaxValiditySeconds
    THEN "Signature validity too long"
    ELSE ""

ValidityExclusive(created, expires, now) ==
    IF created.n = 0 \/ expires.n = 0 \/ ~created.ok \/ ~expires.ok
    THEN "Invalid timestamp"
    ELSE IF created.n > now + ClockSkewSeconds THEN "Signature from future"
    ELSE IF expires.n < now THEN "Signature expired"
    ELSE IF expires.n - created.n >= MaxValiditySeconds
    THEN "Signature validity too long"
    ELSE ""

\* a variant that looks at expires before it looks at created
ExpiredBeforeFuture(created, expires, now) ==
    IF created.n = 0 \/ expires.n = 0 \/ ~created.ok \/ ~expires.ok
    THEN "Invalid timestamp"
    ELSE IF expires.n < now THEN "Signature expired"
    ELSE IF created.n > now + ClockSkewSeconds THEN "Signature from future"
    ELSE IF expires.n - created.n > MaxValiditySeconds
    THEN "Signature validity too long"
    ELSE ""

\* a variant that takes a signature only in the second it was created in
OneSecondWindow(created, expires, now) ==
    IF created.n = 0 \/ expires.n = 0 \/ ~created.ok \/ ~expires.ok
    THEN "Invalid timestamp"
    ELSE IF created.n > now + ClockSkewSeconds THEN "Signature from future"
    ELSE IF expires.n < now \/ created.n < now THEN "Signature expired"
    ELSE IF expires.n - created.n > MaxValiditySeconds
    THEN "Signature validity too long"
    ELSE ""

\* the timestamp checks of verifySignature, in the order of the code:
\* the error of the first check that fails, "" when all pass
TimestampError(created, expires, now) ==
    IF created.n = 0 \/ expires.n = 0 \/ ~created.ok \/ ~expires.ok
    THEN "Invalid timestamp"
    ELSE IF created.n > now + ClockSkewSeconds THEN "Signature from future"
    ELSE IF expires.n < now THEN "Signature expired"
    ELSE IF expires.n - created.n > MaxValiditySeconds
    THEN "Signature validity too long"
    ELSE ""

TimestampMessage(error) ==
    IF error = "Invalid timestamp"
    THEN "Signature must include created and expires parameters"
    ELSE IF error = "Signature from future"
    THEN "Signature created timestamp is in the future"
    ELSE IF error = "Signature expired" THEN "Signature has expired"
    ELSE "Signature validity period exceeds 5 minutes"

\* a variant of the steps after parsing that looks at the timestamps
\* before it looks the keyid up
TimestampsBeforeLookup(req, registry, now, params, sv) ==
    LET keyid  == Param(params.pairs, KeyKeyid)
        terr   == TimestampError(ParseInt(Param(params.pairs, KeyCreated)),
                                 ParseInt(Param(params.pairs, KeyExpires)), now)
    IN  IF terr # "" THEN Reject("timestamp", terr, TimestampMessage(terr))
        ELSE IF keyid \notin DOMAIN registry
        THEN Reject("lookup", "Unknown agent", "Agent not found in registry")
        ELSE IF ~verifyEd25519Signature(
                    buildSignatureBase(req, params.components, req.sigInput),
                    sv.value, registry[keyid].publicKey)
        THEN Reject("crypto", "Invalid signature", "Signature verification failed")
        ELSE Accept("crypto", [id |-> keyid, name |-> registry[keyid].name])

\* a variant that attaches the agent before it checks the signature
AttachBeforeVerify(req, registry, now, params, sv) ==
    LET keyid  == Param(params.pairs, KeyKeyid)
        terr   == TimestampError(ParseInt(Param(params.pairs, KeyCreated)),
                                 ParseInt(Param(params.pairs, KeyExpires)), now)
    IN  IF keyid \notin DOMAIN registry
        THEN Reject("lookup", "Unknown agent", "Agent not found in registry")
        ELSE IF terr # "" THEN Reject("timestamp", terr, TimestampMessage(terr))
        ELSE IF ~verifyEd25519Signature(
                    buildSignatureBase(req, params.components, req.sigInput),
                    sv.value, registry[keyid].publicKey)
        THEN [Reject("crypto", "Invalid signature", "Signature verification failed")
                EXCEPT !.agent = [id |-> keyid, name |-> registry[keyid].name]]
        ELSE Accept("crypto", [id |-> keyid, name |-> registry[keyid].name])

\* a variant that names the agent after the Signature-Agent header when
\* the request has one
NameFromSignatureAgent(req, registry, now, params, sv) ==
    LET keyid  == Param(params.pairs, KeyKeyid)
        terr   == TimestampError(ParseInt(Param(params.pairs, KeyCreated)),
                                 ParseInt(Param(params.pairs, KeyExpires)), now)
    IN  IF keyid \notin DOMAIN registry
        THEN Reject("lookup", "Unknown agent", "Agent not found in registry")
        ELSE IF terr # "" THEN Reject("timestamp", terr, TimestampMessage(terr))
        ELSE IF ~verifyEd25519Signature(
                    buildSignatureBase(req, params.components, req.sigInput),
                    sv.value, registry[keyid].publicKey)
        THEN Reject("crypto", "Invalid signature", "Signature verification failed")
        ELSE Accept("crypto", [id |-> keyid,
                               name |-> IF Falsy(req.sigAgent)
                                        THEN registry[keyid].name
                                        ELSE req.sigAgent])

\* verifySignature from the registry lookup on: params and sv are what
\* parseSignatureInput and parseSignature returned without throwing
VerifyLookedUp(req, registry, now, params, sv) ==
    LET keyid  == Param(params.pairs, KeyKeyid)
        agent  == registry[keyid]
        terr   == TimestampError(ParseInt(Param(params.pairs, KeyCreated)),
                                 ParseInt(Param(params.pairs, KeyExpires)), now)
    IN  IF keyid \notin DOMAIN registry
        THEN Reject("lookup", "Unknown agent", "Agent not found in registry")
        ELSE IF terr # "" THEN Reject("timestamp", terr, TimestampMessage(terr))
        ELSE IF ~verifyEd25519Signature(
                    buildSignatureBase(req, params.components, req.sigInput),
                    sv.value, agent.publicKey)
        THEN Reject("crypto", "Invalid signature", "Signature verification failed")
        ELSE Accept("crypto", [id |-> keyid, name |-> agent.name])

\* a variant without the catch block: a throw of a parser leaves the
\* request without a response
UncaughtParse(req, registry, now, params, sv) ==
    IF params.error \/ sv.error
    THEN [next |-> FALSE, status |-> 0, error |-> "", message |-> "",
          agent |-> NoAgent, stage |-> "parse"]
    ELSE VerifyLookedUp(req, registry, now, params, sv)

\* the try block of verifySignature once both headers were found present:
\* a throw of either parser is caught and answered
VerifyHeaders(req, registry, now, params, sv) ==
    IF params.error
    THEN Reject("parse", "Signature verification failed",
                "Invalid Signature-Input format")
    ELSE IF sv.error
    THEN Reject("parse", "Signature verification failed",
                "Invalid Signature format")
    ELSE VerifyLookedUp(req, registry, now, params, sv)

VerifyParsed(req, registry, now) ==
    VerifyHeaders(req, registry, now, parseSignatureInput(req.sigInput),
                  parseSignature(req.sig))

\* a variant of verifySignature that lets every POST through
BypassAnyPost(req, registry, now) ==
    IF req.method = "POST"
    THEN Accept("bypass", NoAgent)
    ELSE IF Falsy(req.sigInput) \/ Falsy(req.sig)
    THEN Reject("headers", "Missing signature headers",
                "Signature-Input and Signature headers are required")
    ELSE VerifyParsed(req, registry, now)

\* a variant of verifySignature that asks for the headers only when both
\* are missing
MissingBothOnly(req, registry, now) ==
    IF PathOf(req.url) = LitRegisterPath /\ req.method = "POST"
    THEN Accept("bypass", NoAgent)
    ELSE IF Falsy(req.sigInput) /\ Falsy(req.sig)
    THEN Reject("headers", "Missing signature headers",
                "Signature-Input and Signature headers are required")
    ELSE VerifyParsed(req, registry, now)

\* verifySignature(req, res, next) against the registry and the clock it
\* reads: what it answers, or that it calls next()
verifySignature(req, registry, now) ==
    IF PathOf(req.url) = LitRegisterPath /\ req.method = "POST"
    THEN Accept("bypass", NoAgent)
    ELSE IF Falsy(req.sigInput) \/ Falsy(req.sig)
    THEN Reject("headers", "Missing signature headers",
                "Signature-Input and Signature headers are required")
    ELSE VerifyParsed(req, registry, now)

\* a variant of registerAgent that keeps the entry a keyid already has
FirstWriteWins(registry, keyid, name, publicKey, algorithm, now) ==
    [k \in DOMAIN registry \cup {keyid} |->
        IF k \in DOMAIN registry
        THEN registry[k]
        ELSE [name |-> name, publicKey |-> publicKey,
              algorithm |-> IF algorithm = Undefined THEN LitEd25519
                            ELSE algorithm,
              registeredAt |-> now]]

\* registerAgent: agentRegistry.set(keyid, {...}); algorithm defaults to
\* 'ed25519'; now stands for new Date().toISOString()
registerAgent(registry, keyid, name, publicKey, algorithm, now) ==
    [k \in DOMAIN registry \cup {keyid} |->
        IF k = keyid
        THEN [name |-> name, publicKey |-> publicKey,
              algorithm |-> IF algorithm = Undefined THEN LitEd25519
                            ELSE algorithm,
              registeredAt |-> now]
        ELSE registry[k]]


\* ------------------------------------------------------------------------
\* server.js: routes
\* ------------------------------------------------------------------------

Alphabet == <<"a", "b", "c", "d", "e", "f", "g", "h", "i", "j", "k", "l", "m",
              "n", "o", "p", "q", "r", "s", "t", "u", "v", "w", "x", "y", "z">>
AlphabetUpper == <<"A", "B", "C", "D", "E", "F", "G", "H", "I", "J", "K", "L", "M",
                   "N", "O", "P", "Q", "R", "S", "T", "U", "V", "W", "X", "Y", "Z">>

ToLowerCh == [c \in UpperCh |-> Alphabet[CHOOSE i \in 1..26 : AlphabetUpper[i] = c]]

ToLowerCase(s) ==
    [i \in 1..Len(s) |-> IF s[i] \in UpperCh THEN ToLowerCh[s[i]] ELSE s[i]]

\* the k-th smallest element of a set of numbers
Nth(S, k) == CHOOSE x \in S : Cardinality({y \in S : y < x}) = k - 1

\* s.split(c) for a one-character separator
SplitOn(s, c) ==
    LET cuts == {0, Len(s) + 1} \cup {i \in 1..Len(s) : s[i] = c}
    IN  [k \in 1..(Cardinality(cuts) - 1) |->
            SubSeq(s, Nth(cuts, k) + 1, Nth(cuts, k + 1) - 1)]

\* the routes in the order server.js registers them; verify says whether
\* verifySignature stands before the handler
Routes == <<
    [method |-> "POST", verify |-> FALSE,
     path |-> <<"/", "a", "p", "i", "/", "r", "e", "g", "i", "s", "t", "r", "y", "/", "r", "e", "g", "i", "s", "t", "e", "r">>],
    [method |-> "GET", verify |-> TRUE,
     path |-> <<"/", "a", "p", "i", "/", "p", "r", "o", "d", "u", "c", "t", "s">>],
    [method |-> "GET", verify |-> TRUE,
     path |-> <<"/", "a", "p", "i", "/", "p", "r", "o", "d", "u", "c", "t", "s", "/", ":", "i", "d">>],
    [method |-> "POST", verify |-> TRUE,
     path |-> <<"/", "a", "p", "i", "/", "c", "a", "r", "t">>],
    [method |-> "GET", verify |-> TRUE,
     path |-> <<"/", "a", "p", "i", "/", "c", "a", "r", "t", "/", ":", "s", "e", "s", "s", "i", "o", "n", "I", "d">>],
    [method |-> "POST", verify |-> TRUE,
     path |-> <<"/", "a", "p", "i", "/", "c", "a", "r", "t", "/", ":", "s", "e", "s", "s", "i", "o", "n", "I", "d", "/", "i", "t", "e", "m", "s">>],
    [method |-> "PUT", verify |-> TRUE,
     path |-> <<"/", "a", "p", "i", "/", "c", "a", "r", "t", "/", ":", "s", "e", "s", "s", "i", "o", "n", "I", "d", "/", "i", "t", "e", "m", "s", "/", ":", "p", "r", "o", "d", "u", "c", "t", "I", "d">>],
    [method |-> "DELETE", verify |-> TRUE,
     path |-> <<"/", "a", "p", "i", "/", "c", "a", "r", "t", "/", ":", "s", "e", "s", "s", "i", "o", "n", "I", "d", "/", "i", "t", "e", "m", "s", "/", ":", "p", "r", "o", "d", "u", "c", "t", "I", "d">>],
    [method |-> "POST", verify |-> TRUE,
     path |-> <<"/", "a", "p", "i", "/", "c", "a", "r", "t", "/", ":", "s", "e", "s", "s", "i", "o", "n", "I", "d", "/", "c", "h", "e", "c", "k", "o", "u", "t">>],
    [method |-> "GET", verify |-> TRUE,
     path |-> <<"/", "a", "p", "i", "/", "o", "r", "d", "e", "r", "s">>],
    [method |-> "GET", verify |-> TRUE,
     path |-> <<"/", "a", "p", "i", "/", "o", "r", "d", "e", "r", "s", "/", ":", "i", "d">>],
    [method |-> "GET", verify |-> FALSE,
     path |-> <<"/", "h", "e", "a", "l", "t", "h">>] >>

RouteRegister == 1
RouteProducts == 2
RouteProduct == 3
RouteCartCreate == 4
RouteCart == 5
RouteAddItem == 6
RouteUpdateItem == 7
RouteRemoveItem == 8
RouteCheckout == 9
RouteOrders == 10
RouteOrder == 11
RouteHealth == 12

\* Express drops one trailing slash (strict routing is off)
Unslashed(path) ==
    IF Len(path) > 1 /\ path[Len(path)] = "/"
    THEN SubSeq(path, 1, Len(path) - 1) ELSE path

IsParam(segment) == segment # <<>> /\ segment[1] = ":"

\* a route path against the segments of a request path: literal segments
\* compare without regard to case, a :name segment takes any one
\* non-empty segment
SegmentsMatch(ps, xs) ==
    /\ Len(ps) = Len(xs)
    /\ \A i \in 1..Len(ps) :
          IF IsParam(ps[i]) THEN xs[i] # <<>>
          ELSE ToLowerCase(xs[i]) = ToLowerCase(ps[i])

PathMatches(pattern, path) ==
    SegmentsMatch(SplitOn(pattern, "/"), SplitOn(Unslashed(path), "/"))

\* the first route that takes the request, 0 when none does
Dispatch(method, path) ==
    LET hits == {r \in 1..Len(Routes) :
                    Routes[r].method = method /\ PathMatches(Routes[r].path, path)}
    IN  IF hits = {} THEN 0 ELSE Min(hits)

\* req.params[name] of a request the route took
ParamOf(ps, xs, name) ==
    xs[CHOOSE i \in 1..Len(ps) : ps[i] = <<":">> \o name]

RouteParam(route, path, name) ==
    ParamOf(SplitOn(Routes[route].path, "/"), SplitOn(Unslashed(path), "/"), name)

\* ------------------------------------------------------------------------
\* database.js: tables and queries
\* ------------------------------------------------------------------------

\* the value JavaScript calls null: where a row is expected (no row
\* found), and where a string is
Null == [null |-> TRUE]
NullText == <<"null">>

\* products as the seed script stores them (the first two; price in cents)
Products == <<[id |-> 1, price |-> 119900, stock |-> 15],
              [id |-> 2, price |-> 109900, stock |-> 8]>>

\* an empty database with its tables created.  carts and orders are in
\* insertion order, so a row's id is its position; the row ids of
\* cart_items and order_items are read by no handler and are left out.
EmptyDb == [carts |-> <<>>, cart_items |-> {}, orders |-> <<>>, order_items |-> {}]

\* a TEXT parameter compared with an INTEGER column: converted when it is
\* a well-formed integer, otherwise equal to no row
SqlInteger(v) ==
    IF v # <<>> /\ \A i \in 1..Len(v) : v[i] \in DigitCh
    THEN DecPrefix(v, 0, FALSE) ELSE NaN

productQueries_getById(id) ==
    IF \E i \in 1..Len(Products) : Products[i].id = id
    THEN Products[CHOOSE i \in 1..Len(Products) : Products[i].id = id]
    ELSE Null

cartQueries_create(d, sessionId) ==
    [d EXCEPT !.carts = Append(@, [id |-> Len(@) + 1, session_id |-> sessionId])]

cartQueries_getBySessionId(d, sessionId) ==
    IF \E i \in 1..Len(d.carts) : d.carts[i].session_id = sessionId
    THEN d.carts[CHOOSE i \in 1..Len(d.carts) : d.carts[i].session_id = sessionId]
    ELSE Null

\* the rows of the cart joined with products
cartQueries_getItems(d, cartId) ==
    {[product_id |-> ci.product_id, quantity |-> ci.quantity,
      price |-> productQueries_getById(ci.product_id).price] :
        ci \in {x \in d.cart_items :
                  x.cart_id = cartId /\ productQueries_getById(x.product_id) # Null}}

cartQueries_addItem(d, cartId, productId, quantity) ==
    IF \E x \in d.cart_items : x.cart_id = cartId /\ x.product_id = productId
    THEN [d EXCEPT !.cart_items =
             {IF x.cart_id = cartId /\ x.product_id = productId
              THEN [x EXCEPT !.quantity = @ + quantity] ELSE x : x \in @}]
    ELSE [d EXCEPT !.cart_items =
             @ \cup {[cart_id |-> cartId, product_id |-> productId,
                      quantity |-> quantity]}]

cartQueries_updateItem(d, cartId, productId, quantity) ==
    [d EXCEPT !.cart_items =
        {IF x.cart_id = cartId /\ x.product_id = productId
         THEN [x EXCEPT !.quantity = quantity] ELSE x : x \in @}]

cartQueries_removeItem(d, cartId, productId) ==
    [d EXCEPT !.cart_items =
        {x \in @ : ~(x.cart_id = cartId /\ x.product_id = productId)}]

cartQueries_clear(d, cartId) ==
    [d EXCEPT !.cart_items = {x \in @ : x.cart_id # cartId}]

orderQueries_create(d, orderNumber, customerName, customerEmail, phone, shippingAddress, paymentMethod, total, status) ==
    [d EXCEPT !.orders = Append(@,
        [id |-> Len(@) + 1, order_number |-> orderNumber,
         customer_name |-> customerName, customer_email |-> customerEmail,
         phone |-> phone, shipping_address |-> shippingAddress,
         payment_method |-> paymentMethod, total |-> total, status |-> status])]

orderQueries_createItem(d, orderId, productId, quantity, priceAtPurchase) ==
    [d EXCEPT !.order_items =
        @ \cup {[order_id |-> orderId, product_id |-> productId,
                 quantity |-> quantity, price_at_purchase |-> priceAtPurchase]}]

orderQueries_getById(d, id) ==
    IF id \in 1..Len(d.orders) THEN d.orders[id] ELSE Null

\* ------------------------------------------------------------------------
\* server.js: handlers.  A request body is a function from the names of
\* the fields it carries to their values (numbers for productId and
\* quantity, strings otherwise); each handler gives the status it answers
\* and the database it leaves.
\* ------------------------------------------------------------------------

LitSessionId == <<"s", "e", "s", "s", "i", "o", "n", "I", "d">>
LitProductId == <<"p", "r", "o", "d", "u", "c", "t", "I", "d">>
LitId == <<"i", "d">>
LitEmail == <<"e", "m", "a", "i", "l">>
LitOrd == <<"O", "R", "D", "-">>
LitPlaceholder == <<"c", "y", "b", "e", "r", "s", "o", "u", "r", "c", "e", "_", "t", "o", "k", "e", "n", "_", "p", "l", "a", "c", "e", "h", "o", "l", "d", "e", "r">>

\* body[f] for a field that may be missing
Field(body, f) == IF f \in DOMAIN body THEN body[f] ELSE Undefined

\* !body[f] for a field that holds a string when present
NoText(body, f) == f \notin DOMAIN body \/ body[f] = <<>>

\* !body[f] for a field that holds a number when present
NoNumber(body, f) == f \notin DOMAIN body \/ body[f] = 0

Answer(status, d) == [status |-> status, db |-> d]

\* req.query[name]: the value of the first name=value pair of the query
\* string, undefined when there is none
QueryPairs(url) ==
    IF FirstAt(url, 1, "?") = 0 THEN <<>>
    ELSE SplitOn(From(url, FirstAt(url, 1, "?") + 1), "&")

PairKey(pair) ==
    IF FirstAt(pair, 1, "=") = 0 THEN pair
    ELSE SubSeq(pair, 1, FirstAt(pair, 1, "=") - 1)

PairValue(pair) ==
    IF FirstAt(pair, 1, "=") = 0 THEN <<>>
    ELSE From(pair, FirstAt(pair, 1, "=") + 1)

QueryOf(pairs, name) ==
    IF \E i \in 1..Len(pairs) : PairKey(pairs[i]) = name
    THEN PairValue(pairs[Min({i \in 1..Len(pairs) : PairKey(pairs[i]) = name})])
    ELSE Undefined

QueryParam(url, name) == QueryOf(QueryPairs(url), name)

\* items.reduce((sum, item) => sum + item.price * item.quantity, 0)
RECURSIVE Total(_)
Total(items) ==
    IF items = {} THEN 0
    ELSE LET item == CHOOSE x \in items : TRUE
         IN  item.price * item.quantity + Total(items \ {item})

\* the session id of a new cart and the number of a new order: fresh
\* values, where the code draws them from randomUUID()
NewSessionId(d) == <<"s">> \o ToDec(Len(d.carts) + 1)
NewOrderNumber(d) == LitOrd \o ToDec(Len(d.orders) + 1)

\* whether JSON.parse takes the text: a number, or text within braces,
\* brackets or double quotes (the model sends no other JSON)
JsonParses(text) ==
    \/ text # <<>> /\ \A i \in 1..Len(text) : text[i] \in DigitCh
    \/ /\ Len(text) >= 2
       /\ <<text[1], text[Len(text)]>> \in {<<"{", "}">>, <<"[", "]">>, <<"\"", "\"">>}

GetProducts(d) == Answer(200, d)

GetProduct(d, id) ==
    IF ~SqlInteger(id).ok \/ productQueries_getById(SqlInteger(id).n) = Null
    THEN Answer(404, d) ELSE Answer(200, d)

CreateCart(d) == Answer(200, cartQueries_create(d, NewSessionId(d)))

GetCart(d, sessionId) ==
    IF cartQueries_getBySessionId(d, sessionId) = Null
    THEN Answer(404, d) ELSE Answer(200, d)

AddItemTo(d, cart, product, body) ==
    IF cart = Null THEN Answer(404, d)
    ELSE IF product = Null THEN Answer(404, d)
    ELSE IF product.stock < body.quantity THEN Answer(400, d)
    ELSE Answer(200, cartQueries_addItem(d, cart.id, body.productId, body.quantity))

AddItem(d, sessionId, body) ==
    IF NoNumber(body, "productId") \/ NoNumber(body, "quantity")
    THEN Answer(400, d)
    ELSE AddItemTo(d, cartQueries_getBySessionId(d, sessionId),
                   productQueries_getById(body.productId), body)

\* the row a TEXT product id of the URL names, 0 when it names none
ProductIdOf(text) == IF SqlInteger(text).ok THEN SqlInteger(text).n ELSE 0

UpdateItemOf(d, cart, productId, body) ==
    IF cart = Null THEN Answer(404, d)
    ELSE IF body.quantity = 0
    THEN Answer(200, cartQueries_removeItem(d, cart.id, ProductIdOf(productId)))
    ELSE Answer(200, cartQueries_updateItem(d, cart.id, ProductIdOf(productId),
                                            body.quantity))

UpdateItem(d, sessionId, productId, body) ==
    IF "quantity" \notin DOMAIN body THEN Answer(400, d)
    ELSE UpdateItemOf(d, cartQueries_getBySessionId(d, sessionId), productId, body)

RemoveItemOf(d, cart, productId) ==
    IF cart = Null THEN Answer(404, d)
    ELSE Answer(200, cartQueries_removeItem(d, cart.id, ProductIdOf(productId)))

RemoveItem(d, sessionId, productId) ==
    RemoveItemOf(d, cartQueries_getBySessionId(d, sessionId), productId)

\* for (const item of items) orderQueries.createItem(...)
RECURSIVE CreateItems(_, _, _)
CreateItems(d, orderId, items) ==
    IF items = {} THEN d
    ELSE LET item == CHOOSE x \in items : TRUE
         IN  CreateItems(orderQueries_createItem(d, orderId, item.product_id,
                                                 item.quantity, item.price),
                         orderId, items \ {item})

\* the order and its items written and the cart cleared
PlaceOrder(d, cart, items, body) ==
    cartQueries_clear(
        CreateItems(
            orderQueries_create(d, NewOrderNumber(d), body.customerName,
                                body.customerEmail,
                                IF NoText(body, "phone") THEN NullText
                                ELSE body.phone,
                                body.shippingAddress.text,
                                IF NoText(body, "paymentMethod") THEN LitPlaceholder
                                ELSE body.paymentMethod,
                                Total(items), "confirmed"),
            Len(d.orders) + 1, items),
        cart.id)

\* a shippingAddress is [object, text]: whether the body held an object,
\* and its JSON.stringify, or else the string the body held.  The answer
\* parses the stored text again when the body held a string; when that
\* throws, the catch answers 500 after the order was written.
CheckoutOf(d, cart, items, body) ==
    IF cart = Null THEN Answer(404, d)
    ELSE IF items = {} THEN Answer(400, d)
    ELSE IF body.shippingAddress.object \/ JsonParses(body.shippingAddress.text)
    THEN Answer(200, PlaceOrder(d, cart, items, body))
    ELSE Answer(500, PlaceOrder(d, cart, items, body))

CheckoutCart(d, cart, body) ==
    CheckoutOf(d, cart,
               IF cart = Null THEN {} ELSE cartQueries_getItems(d, cart.id), body)

Checkout(d, sessionId, body) ==
    IF \/ NoText(body, "customerName")
       \/ NoText(body, "customerEmail")
       \/ "shippingAddress" \notin DOMAIN body
       \/ (~body.shippingAddress.object /\ body.shippingAddress.text = <<>>)
    THEN Answer(400, d)
    ELSE CheckoutCart(d, cartQueries_getBySessionId(d, sessionId), body)

GetOrders(d, email) ==
    IF Falsy(email) THEN Answer(400, d) ELSE Answer(200, d)

GetOrderOf(d, order) ==
    IF order = Null THEN Answer(404, d)
    ELSE IF JsonParses(order.shipping_address) THEN Answer(200, d)
    ELSE Answer(500, d)

GetOrder(d, id) ==
    GetOrderOf(d, IF SqlInteger(id).ok THEN orderQueries_getById(d, SqlInteger(id).n)
                  ELSE Null)

\* the handler of a route that reads or writes the database, on a request
\* the route took
Handle(route, req, d) ==
    CASE route = RouteProducts -> GetProducts(d)
      [] route = RouteProduct ->
            GetProduct(d, RouteParam(route, PathOf(req.url), LitId))
      [] route = RouteCartCreate -> CreateCart(d)
      [] route = RouteCart ->
            GetCart(d, RouteParam(route, PathOf(req.url), LitSessionId))
      [] route = RouteAddItem ->
            AddItem(d, RouteParam(route, PathOf(req.url), LitSessionId), req.body)
      [] route = RouteUpdateItem ->
            UpdateItem(d, RouteParam(route, PathOf(req.url), LitSessionId),
                       RouteParam(route, PathOf(req.url), LitProductId), req.body)
      [] route = RouteRemoveItem ->
            RemoveItem(d, RouteParam(route, PathOf(req.url), LitSessionId),
                       RouteParam(route, PathOf(req.url), LitProductId))
      [] route = RouteCheckout ->
            Checkout(d, RouteParam(route, PathOf(req.url), LitSessionId), req.body)
      [] route = RouteOrders -> GetOrders(d, QueryParam(req.url, LitEmail))
      [] route = RouteOrder ->
            GetOrder(d, RouteParam(route, PathOf(req.url), LitId))
      [] OTHER -> Answer(200, d)

\* ------------------------------------------------------------------------
\* State
\* ------------------------------------------------------------------------

VARIABLES
    agentRegistry,  \* middleware.js: the Map keyid -> agent
    db,             \* database.js: the tables
    clock,          \* Math.floor(Date.now() / 1000) of the backend
    ticks,          \* how often the clock has advanced
    regCount,       \* registrations handled so far
    regLast,        \* the registration handled last, with its answer
    pending,        \* the request whose verifySignature is at its await
    last,           \* the request answered last, with its answer
    mcp             \* part_000: the MCP server process and its config file

vars == <<agentRegistry, db, clock, ticks, regCount, regLast, pending, last, mcp>>

None == [none |-> TRUE]

\* the clock at start, and how far the model lets things run
Epoch == 1000
MaxTicks == 1
MaxRegistrations == 2
MaxCarts == 2
MaxOrders == 1
MaxQuantity == 2
MaxReplays == 2
MaxStarts == 2
MaxToolCalls == 3

\* ------------------------------------------------------------------------
\* Inputs
\* ------------------------------------------------------------------------

UrlProducts == <<"/", "a", "p", "i", "/", "p", "r", "o", "d", "u", "c", "t", "s">>
UrlProductsQuery == <<"/", "a", "p", "i", "/", "p", "r", "o", "d", "u", "c", "t",
                      "s", "?", "q", "=", "1">>
KeyIdPlain == <<"k", "1">>
KeyIdQuoted == <<"k", "1", "\"", "x">>
HostOther == <<"e", "v", "i", "l", ".", "e", "x", "a", "m", "p", "l", "e">>
NameAlice == <<"A", "l", "i", "c", "e">>
NonceAb == <<"a", "b">>
AlgRsa == <<"r", "s", "a", "-", "p", "s", "s", "-", "s", "h", "a", "2", "5", "6">>
SigMalformed == <<"s", "i", "g", "1", "=", ":", ":">>

PublicKeys == {generateKeypair(k).publicKey : k \in PrivateKeys}

\* a request without a body: express.json() leaves an empty object, which
\* is written here as an object with one field that no handler reads
NoBody == [none |-> TRUE]

\* a call of apiRequest(method, path, body)
Call(method, url, body) == [method |-> method, url |-> url, body |-> body]

\* what the network or its sender did to a signed request before the
\* backend saw it
Tampers == {"none", "host", "nohost", "url", "badsig", "nosig", "unsigned"}

NotClose(c) == c # ")"

OtherUrl(url) == IF url = UrlProducts THEN UrlProductsQuery ELSE UrlProducts

Tampered(req, how) ==
    IF how = "host" THEN [req EXCEPT !.host = HostOther]
    ELSE IF how = "nohost" THEN [req EXCEPT !.host = <<>>]
    ELSE IF how = "url" THEN [req EXCEPT !.url = OtherUrl(req.url)]
    ELSE IF how = "badsig" THEN [req EXCEPT !.sig = SigMalformed]
    ELSE IF how = "nosig" THEN [req EXCEPT !.sig = Undefined]
    ELSE IF how = "unsigned"
    THEN [req EXCEPT !.sig = Undefined, !.sigInput = Undefined,
                     !.sigAgent = Undefined]
    ELSE IF how = "noinput" THEN [req EXCEPT !.sigInput = Undefined]
    ELSE IF how = "emptysig" THEN [req EXCEPT !.sig = <<>>]
    ELSE IF how = "nolabel"
    THEN [req EXCEPT !.sigInput = [@ EXCEPT ![Len(LitSig1Eq) - 1] = "2"]]
    ELSE IF how = "unbalanced"
    THEN [req EXCEPT !.sigInput = SelectSeq(@, NotClose)]
    ELSE req

\* ------------------------------------------------------------------------
\* Actions
\* ------------------------------------------------------------------------

\* tool calls the MCP server handles at the same time
CallSlots == {1, 2}

\* part_000 before `node index.js`: no process, and the module variables
\* agentConfig and currentCartSessionId as a new process has them.  file
\* is .agent-config.json (None while there is none), boot the position of
\* initializeAgent, serving whether server.connect was reached, calls the
\* tool calls being handled, done the result returned last.
McpDown(file, starts) ==
    [file |-> file, running |-> FALSE, boot |-> None, agentConfig |-> None,
     serving |-> FALSE, currentCartSessionId |-> NullText,
     calls |-> [i \in CallSlots |-> None], begun |-> 0, starts |-> starts,
     done |-> None]

Init ==
    /\ mcp = McpDown(None, 0)
    /\ agentRegistry = <<>>
    /\ db = EmptyDb
    /\ clock = Epoch
    /\ ticks = 0
    /\ regCount = 0
    /\ regLast = None
    /\ pending = None
    /\ last = None

\* time passes (while an answer waits to be read, nothing depends on it)
Tick(steps) ==
    /\ ticks < MaxTicks
    /\ last = None
    /\ \E d \in steps : clock' = clock + d
    /\ ticks' = ticks + 1
    /\ UNCHANGED <<agentRegistry, db, regCount, regLast, pending, last, mcp>>

\* the status the handler of POST /api/registry/register answers
RegisterStatus(body) ==
    IF \/ Falsy(Field(body, "keyid"))
       \/ Falsy(Field(body, "name"))
       \/ Falsy(Field(body, "publicKey"))
    THEN 400 ELSE 200

\* server.js: the handler of POST /api/registry/register.  regLast keeps
\* what was asked, the status answered and the public key the entry held
\* before.
Register(body) ==
    /\ regLast' = [keyid |-> Field(body, "keyid"),
                   publicKey |-> Field(body, "publicKey"),
                   seq |-> regCount + 1,
                   before |-> IF /\ RegisterStatus(body) = 200
                                 /\ body.keyid \in DOMAIN agentRegistry
                              THEN agentRegistry[body.keyid].publicKey
                              ELSE Undefined,
                   status |-> RegisterStatus(body)]
    /\ agentRegistry' = IF RegisterStatus(body) = 200
                        THEN registerAgent(agentRegistry, body.keyid, body.name,
                                           body.publicKey,
                                           Field(body, "algorithm"), clock)
                        ELSE agentRegistry
    /\ regCount' = regCount + 1

\* a registration arrives
PostRegister(keyids, names, publicKeys, algorithms) ==
    /\ regCount < MaxRegistrations
    /\ last = None
    /\ \E keyid \in keyids, name \in names, publicKey \in publicKeys,
          algorithm \in algorithms :
          Register([keyid |-> keyid, name |-> name, publicKey |-> publicKey,
                    algorithm |-> algorithm])
    /\ UNCHANGED <<db, clock, ticks, pending, last, mcp>>

\* what stands in the place of a verdict on a route without
\* verifySignature, and on a request no route takes
Unverified ==
    [next |-> TRUE, status |-> 0, error |-> "", message |-> "",
     agent |-> NoAgent, stage |-> "none"]

Verdict(route, req, registry, now) ==
    IF route # 0 /\ Routes[route].verify
    THEN verifySignature(req, registry, now) ELSE Unverified

\* the answer goes out: res is its status and whether a handler ran
Answered(rec, status, handler, d) ==
    /\ last' = [req |-> rec.req, signed |-> rec.signed, now |-> rec.now,
                registry |-> rec.registry, regSeq |-> rec.regSeq,
                route |-> rec.route, out |-> rec.out,
                res |-> [status |-> status, handler |-> handler]]
    /\ db' = d

Handled(rec, answer) == Answered(rec, answer.status, TRUE, answer.db)

\* a request on its way through the routes: no route (Express answers
\* 404), the registration handler, verifySignature reaching its await,
\* the handler after a next() without await, or the 401 of verifySignature
Entered(rec) ==
    IF rec.route = 0
    THEN Answered(rec, 404, FALSE, db) /\ pending' = pending
    ELSE IF rec.route = RouteRegister
    THEN Answered(rec, RegisterStatus(rec.req.body), TRUE, db) /\ pending' = pending
    ELSE IF rec.out.stage = "crypto"
    THEN pending' = rec /\ last' = last /\ db' = db
    ELSE IF rec.out.next
    THEN Handled(rec, Handle(rec.route, rec.req, db)) /\ pending' = pending
    ELSE Answered(rec, rec.out.status, FALSE, db) /\ pending' = pending

Routed(req, signed, route) ==
    /\ IF route = RouteRegister
       THEN regCount < MaxRegistrations /\ Register(req.body)
       ELSE UNCHANGED <<agentRegistry, regCount, regLast>>
    /\ Entered([req |-> req, signed |-> signed, now |-> clock,
                registry |-> agentRegistry, regSeq |-> regCount,
                route |-> route,
                out |-> Verdict(route, req, agentRegistry, clock)])

\* the tables have room for what the route may add
Room(route, d) ==
    /\ route = RouteCartCreate => Len(d.carts) < MaxCarts
    /\ route = RouteCheckout => Len(d.orders) < MaxOrders
    /\ route = RouteAddItem => \A x \in d.cart_items : x.quantity < MaxQuantity

\* the backend takes a request: it goes through the routes up to the
\* await of verifySignature (the call of verifyEd25519Signature) or to the
\* answer given before that.  signed records how the headers were made.
Submit(req, signed) ==
    /\ pending = None
    /\ last = None
    /\ Room(Dispatch(req.method, PathOf(req.url)), db)
    /\ Routed(req, signed, Dispatch(req.method, PathOf(req.url)))
    /\ UNCHANGED <<clock, ticks, mcp>>

\* the request a client sends with the headers h it made
SignedRequest(call, h) ==
    [method |-> call.method, url |-> call.url, body |-> call.body,
     host |-> LitDefaultHost,
     sigInput |-> h.sigInput, sig |-> h.sig, sigAgent |-> h.sigAgent]

\* part_000 apiRequest: sign with generateSignature and send.  The signer
\* read its clock offset seconds away from what the backend's clock shows
\* on arrival (earlier when the request took its time, later when the
\* signer's clock runs ahead).
ApiRequest(calls, keyIds, privateKeys, offsets, tampers) ==
    \E call \in calls, keyId \in keyIds, privateKey \in privateKeys,
       offset \in offsets, how \in tampers :
       LET created == clock + offset
       IN  Submit(Tampered(SignedRequest(call,
                      generateSignature(LitDefaultHost, call.url, keyId,
                                        privateKey, created, NonceAb)), how),
                  [by |-> "generateSignature", authority |-> LitDefaultHost,
                   url |-> call.url, keyId |-> keyId, privateKey |-> privateKey,
                   created |-> created, expires |-> created + FreshnessSeconds,
                   alg |-> LitEd25519, how |-> how])

\* a request of another client, signed with parameters of its choice:
\* created is off seconds from the backend's clock on arrival and the
\* signature claims to be valid for validity seconds
ForeignRequest(calls, keyIds, privateKeys, windows, algs, tampers) ==
    \E call \in calls, keyId \in keyIds, privateKey \in privateKeys,
       w \in windows, alg \in algs, how \in tampers :
       LET created == clock + w[1]
           expires == created + w[2]
       IN  Submit(Tampered(SignedRequest(call,
                      ForeignSignature(LitDefaultHost, call.url, privateKey,
                          ForeignParams(created, expires, keyId, alg, NonceAb))),
                      how),
                  [by |-> "foreign", authority |-> LitDefaultHost,
                   url |-> call.url, keyId |-> keyId, privateKey |-> privateKey,
                   created |-> created, expires |-> expires,
                   alg |-> alg, how |-> how])

\* the suspended call reads the name of the entry the registry holds for
\* its keyid when it resumes
AfterAwaitRereads(rec, registry) ==
    IF rec.out.next /\ rec.out.agent.id \in DOMAIN registry
    THEN [rec.out EXCEPT !.agent.name = registry[rec.out.agent.id].name]
    ELSE rec.out

\* verifySignature from the result of its await on: the 401 of an invalid
\* signature, or req.agent and next().  params and agent are the locals
\* the call set before the await, agent being the object the registry
\* held at the lookup; the registry as it is now is not read.
AfterAwait(rec, registry) == rec.out

Resumed(rec) ==
    IF rec.out.next
    THEN Handled(rec, Handle(rec.route, rec.req, db))
    ELSE Answered(rec, rec.out.status, FALSE, db)

\* a variant of Resume in which verifySignature drops the entry of a keyid
\* whose signature did not verify
ResumeEvicts ==
    /\ pending # None
    /\ pending' = None
    /\ Resumed(pending)
    /\ agentRegistry' =
          IF pending.out.next THEN agentRegistry
          ELSE [k \in DOMAIN agentRegistry
                      \ {Param(parseSignatureInput(pending.req.sigInput).pairs,
                               KeyKeyid)} |-> agentRegistry[k]]
    /\ UNCHANGED <<clock, ticks, regCount, regLast, mcp>>

\* verifySignature after its await: its 401, or next() and the handler
Resume ==
    /\ pending # None
    /\ pending' = None
    /\ Resumed([pending EXCEPT !.out = AfterAwait(pending, agentRegistry)])
    /\ UNCHANGED <<agentRegistry, clock, ticks, regCount, regLast, mcp>>

\* part_000 apiRequest: the answer reaches the caller
Return ==
    /\ last # None
    /\ last' = None
    /\ UNCHANGED <<agentRegistry, db, clock, ticks, regCount, regLast, pending, mcp>>

GetProductsCalls == {Call("GET", UrlProducts, NoBody),
                     Call("GET", UrlProductsQuery, NoBody)}

Next ==
    \/ PostRegister({KeyIdPlain, KeyIdQuoted, <<>>}, {NameAlice}, PublicKeys,
                    {Undefined})
    \/ ApiRequest(GetProductsCalls, {KeyIdPlain, KeyIdQuoted},
                  PrivateKeys, {0, -61}, Tampers)
    \/ Resume
    \/ Return

Spec == Init /\ [][Next]_vars

\* the timestamp policy and the algorithm on file: one keyid and one key,
\* the signer's clock up to 61 s to either side, and signatures of other
\* clients with windows of their own
ForeignWindows == {<<0, 300>>, <<0, 301>>, <<50, -40>>, <<0, 0>>, <<0, 60>>,
                   <<-61, 300>>}

NextPolicy ==
    \/ Tick({1, 60})
    \/ PostRegister({KeyIdPlain}, {NameAlice}, {generateKeypair(1).publicKey},
                    {Undefined, AlgRsa})
    \/ ApiRequest({Call("GET", UrlProducts, NoBody)}, {KeyIdPlain}, {1},
                  {-61, -60, 0, 60, 61}, {"none"})
    \/ ForeignRequest({Call("GET", UrlProducts, NoBody)}, {KeyIdPlain}, {1},
                      ForeignWindows, {LitEd25519, AlgRsa}, {"none"})
    \/ Resume
    \/ Return

SpecPolicy == Init /\ [][NextPolicy]_vars

\* every route, with and without a signature: one agent, one cart, one
\* product
UrlCart == <<"/", "a", "p", "i", "/", "c", "a", "r", "t">>
UrlCartS1 == <<"/", "a", "p", "i", "/", "c", "a", "r", "t", "/", "s", "1">>
UrlItems == <<"/", "a", "p", "i", "/", "c", "a", "r", "t", "/", "s", "1", "/", "i", "t", "e", "m", "s">>
UrlItem1 == <<"/", "a", "p", "i", "/", "c", "a", "r", "t", "/", "s", "1", "/", "i", "t", "e", "m", "s", "/", "1">>
UrlCheckout == <<"/", "a", "p", "i", "/", "c", "a", "r", "t", "/", "s", "1", "/", "c", "h", "e", "c", "k", "o", "u", "t">>
UrlProduct1 == <<"/", "a", "p", "i", "/", "p", "r", "o", "d", "u", "c", "t", "s", "/", "1">>
UrlOrders == <<"/", "a", "p", "i", "/", "o", "r", "d", "e", "r", "s", "?", "e", "m", "a", "i", "l", "=", "a", "@", "b", ".", "c">>
UrlOrder1 == <<"/", "a", "p", "i", "/", "o", "r", "d", "e", "r", "s", "/", "1">>
UrlHealth == <<"/", "h", "e", "a", "l", "t", "h">>
UrlRegisterUpper == <<"/", "A", "P", "I", "/", "R", "e", "g", "i", "s", "t", "r", "y", "/", "R", "e", "g", "i", "s", "t", "e", "r", "/">>
EmailAb == <<"a", "@", "b", ".", "c">>
AddressJson == <<"{", "\"", "s", "t", "r", "e", "e", "t", "\"", ":", "\"", "1", " ", "M", "a", "i", "n", " ", "S", "t", "\"", "}">>

RegisterBody ==
    [keyid |-> KeyIdPlain, name |-> NameAlice,
     publicKey |-> generateKeypair(1).publicKey, algorithm |-> Undefined]

CheckoutBody(address) ==
    [customerName |-> NameAlice, customerEmail |-> EmailAb,
     shippingAddress |-> address]

RouteCalls ==
    {Call("POST", LitRegisterPath, RegisterBody),
     Call("GET", LitRegisterPath, RegisterBody),
     Call("POST", UrlRegisterUpper, RegisterBody),
     Call("GET", UrlProducts, NoBody),
     Call("GET", UrlProduct1, NoBody),
     Call("POST", UrlCart, NoBody),
     Call("GET", UrlCartS1, NoBody),
     Call("POST", UrlItems, [productId |-> 1, quantity |-> 1]),
     Call("POST", UrlItems, [productId |-> 1, quantity |-> 16]),
     Call("PUT", UrlItem1, [quantity |-> 0]),
     Call("PUT", UrlItem1, [quantity |-> 2]),
     Call("DELETE", UrlItem1, NoBody),
     Call("POST", UrlCheckout,
          CheckoutBody([object |-> TRUE, text |-> AddressJson])),
     Call("GET", UrlOrders, NoBody),
     Call("GET", UrlOrder1, NoBody),
     Call("GET", UrlHealth, NoBody)}

NextRoutes ==
    \/ PostRegister({KeyIdPlain}, {NameAlice}, {generateKeypair(1).publicKey},
                    {Undefined})
    \/ ApiRequest(RouteCalls, {KeyIdPlain}, {1}, {0},
                  {"none", "unsigned", "host"})
    \/ Resume
    \/ Return

SpecRoutes == Init /\ [][NextRoutes]_vars

\* ------------------------------------------------------------------------
\* Headers altered between signing and verification
\* ------------------------------------------------------------------------

AgentOther == <<"m", "a", "l", "l", "o", "r", "y">>

\* characters written over a character of Signature-Input
InputChars == {"x", "9", ";", "\"", " "}

\* characters written over a character of the signature value
ValueChars == {"A", "h"}

\* the headers h with one character of the parameter string (what follows
\* `sig1=` in Signature-Input) replaced by another one
InputEdits(h) ==
    {[h EXCEPT !.sigInput = [@ EXCEPT ![p] = c]] :
        p \in (Len(LitSig1Eq) + 1)..Len(h.sigInput), c \in InputChars}
      \ {h}

\* the Signature header with value v between its colons
SignatureOf(v) == LitSig1Colon \o v \o <<":">>

\* the value between the colons of a Signature header the signer wrote
ValueOf(sig) == SubSeq(sig, Len(LitSig1Colon) + 1, Len(sig) - 1)

NotPad(c) == c # "="

\* other values in place of the signature value v: one character replaced,
\* the padding dropped, padding added, a character outside the base64
\* alphabet put in front, the last character cut off
ValueEdits(v) ==
    ({[v EXCEPT ![p] = c] : p \in 1..Len(v), c \in ValueChars}
        \cup {SelectSeq(v, NotPad), v \o <<"=">>, <<"!">> \o v,
              SubSeq(v, 1, Len(v) - 1)})
      \ {v}

SignatureEdits(h) ==
    {[h EXCEPT !.sig = SignatureOf(v)] : v \in ValueEdits(ValueOf(h.sig))}

\* the Signature-Agent header left out or naming someone else
AgentEdits(h) ==
    {[h EXCEPT !.sigAgent = Undefined], [h EXCEPT !.sigAgent = AgentOther]}

HeaderEdits(h, kind) ==
    IF kind = "input" THEN InputEdits(h)
    ELSE IF kind = "signature" THEN SignatureEdits(h)
    ELSE IF kind = "agent" THEN AgentEdits(h)
    ELSE {h}

\* the headers h of a call reach the backend as one of their edits; sent
\* keeps them as the signer made them
SubmitEdited(call, h, keyId, privateKey, created, kind) ==
    \E e \in HeaderEdits(h, kind) :
        Submit(SignedRequest(call, e),
               [by |-> "generateSignature", authority |-> LitDefaultHost,
                url |-> call.url, keyId |-> keyId, privateKey |-> privateKey,
                created |-> created, expires |-> created + FreshnessSeconds,
                alg |-> LitEd25519, how |-> kind, sent |-> h])

\* part_000 apiRequest, with the headers altered on the way
EditedRequest(calls, keyIds, privateKeys, kinds) ==
    \E call \in calls, keyId \in keyIds, privateKey \in privateKeys,
       kind \in kinds :
       SubmitEdited(call,
                    generateSignature(LitDefaultHost, call.url, keyId,
                                      privateKey, clock, NonceAb),
                    keyId, privateKey, clock, kind)

\* one agent, one call; any character of the parameter string replaced,
\* or the Signature-Agent header
NextTamper ==
    \/ PostRegister({KeyIdPlain}, {NameAlice},
                    {generateKeypair(1).publicKey}, {Undefined})
    \/ EditedRequest({Call("GET", UrlProducts, NoBody)}, {KeyIdPlain}, {1},
                     {"input", "agent", "none"})
    \/ Resume
    \/ Return

SpecTamper == Init /\ [][NextTamper]_vars

\* one agent, both calls (their signatures end in one and in two padding
\* characters); the signature value replaced by another one
NextSignature ==
    \/ PostRegister({KeyIdPlain}, {NameAlice},
                    {generateKeypair(1).publicKey}, {Undefined})
    \/ EditedRequest(GetProductsCalls, {KeyIdPlain}, {1}, {"signature", "none"})
    \/ Resume
    \/ Return

SpecSignature == Init /\ [][NextSignature]_vars

\* ------------------------------------------------------------------------
\* Requests of a client that writes its own parameter string
\* ------------------------------------------------------------------------

KeyIdUnknown == <<"z", "z">>
TextAbc == <<"a", "b", "c">>
CompMethod == <<"@", "m", "e", "t", "h", "o", "d">>

\* `; key=value`, nothing for a parameter the client leaves out
RawParam(key, value) ==
    IF value = Undefined THEN <<>> ELSE <<";", " ">> \o key \o <<"=">> \o value

Quoted(value) ==
    IF value = Undefined THEN Undefined ELSE <<"\"">> \o value \o <<"\"">>

\* `("a" "b")` for the component names of cover
RECURSIVE RawComponents(_)
RawComponents(cover) ==
    IF cover = <<>> THEN <<>>
    ELSE IF Len(cover) = 1 THEN Quoted(cover[1])
    ELSE Quoted(cover[1]) \o <<" ">> \o RawComponents(Tail(cover))

\* the parameter string: README.md, Quick Example, with each parameter
\* written as the client chooses or left out
RawParams(cover, created, expires, keyid, alg, extra) ==
    <<"(">> \o RawComponents(cover) \o <<")">>
        \o RawParam(KeyCreated, created) \o RawParam(KeyExpires, expires)
        \o RawParam(KeyKeyid, Quoted(keyid)) \o RawParam(KeyAlg, Quoted(alg))
        \o extra

\* the client signs the lines of the components in covered (those of cover
\* for which this backend writes a line) and the parameter line
RawSignature(authority, path, covered, privateKey, signatureParams) ==
    LET signatureBase ==
            Join(ComponentLines([host |-> authority, url |-> path], covered)
                   \o <<LitParamsLine \o signatureParams>>)
        signature == ed25519Sign(TextEncode(signatureBase), privateKey)
    IN  [sigInput |-> LitSig1Eq \o signatureParams,
         sig      |-> LitSig1Colon \o ToBase64(signature) \o <<":">>,
         sigAgent |-> Undefined]

IsSupported(c) == c \in {CompAuthority, CompPath}

SubmitRaw(call, h, privateKey, cover, created, expires, keyid, alg, how) ==
    Submit(Tampered(SignedRequest(call, h), how),
           [by |-> "raw", authority |-> LitDefaultHost, url |-> call.url,
            keyId |-> keyid, privateKey |-> privateKey, cover |-> cover,
            created |-> created, expires |-> expires, alg |-> alg,
            how |-> how, sent |-> h])

\* a request signed over a parameter string of the client's own making
RawRequest(calls, privateKeys, covers, createds, expiress, keyids, algs, extras, tampers) ==
    \E call \in calls, privateKey \in privateKeys, cover \in covers,
       created \in createds, expires \in expiress, keyid \in keyids,
       alg \in algs, extra \in extras, how \in tampers :
       SubmitRaw(call,
                 RawSignature(LitDefaultHost, call.url,
                              SelectSeq(cover, IsSupported), privateKey,
                              RawParams(cover, created, expires, keyid, alg,
                                        extra)),
                 privateKey, cover, created, expires, keyid, alg, how)

CoverBoth == <<CompAuthority, CompPath>>

\* created and expires as the client may write them at the backend's clock
\* second: in time, with letters after the digits, without digits, left
\* out, and created in the future, expires in the past or too late
Createds == {ToDec(clock), ToDec(clock) \o <<"x">>, TextAbc, Undefined,
             ToDec(clock + ClockSkewSeconds + 1)}
Expiress == {ToDec(clock + FreshnessSeconds), TextAbc, Undefined,
             ToDec(clock - 1), ToDec(clock + MaxValiditySeconds + 1)}

NextRaw ==
    \/ PostRegister({KeyIdPlain}, {NameAlice},
                    {generateKeypair(1).publicKey}, {Undefined})
    \/ RawRequest({Call("GET", UrlProducts, NoBody)}, {1}, {CoverBoth},
                  Createds, Expiress, {KeyIdPlain, KeyIdUnknown, Undefined},
                  {LitEd25519, Undefined}, {<<>>},
                  {"none", "nosig", "noinput", "emptysig", "badsig", "nolabel",
                   "unbalanced", "host"})
    \/ Resume
    \/ Return

SpecRaw == Init /\ [][NextRaw]_vars

\* a parameter named components, which parseSignatureInput lets replace
\* the parsed component list
ExtraComponents == <<";", " ">> \o KeyComponents \o <<"=", "\"", "x", "\"">>

\* component lists of the client's choice: both components, none, one of
\* the two, and one this backend writes no line for
Covers == {CoverBoth, <<>>, <<CompAuthority>>, <<CompPath>>, <<CompMethod>>}

NextCover ==
    \/ PostRegister({KeyIdPlain}, {NameAlice},
                    {generateKeypair(1).publicKey}, {Undefined})
    \/ RawRequest(GetProductsCalls, {1}, Covers, {ToDec(clock)},
                  {ToDec(clock + FreshnessSeconds)}, {KeyIdPlain},
                  {LitEd25519}, {<<>>, ExtraComponents},
                  {"none", "host", "url"})
    \/ Resume
    \/ Return

SpecCover == Init /\ [][NextCover]_vars

\* ------------------------------------------------------------------------
\* A request sent again
\* ------------------------------------------------------------------------

\* time passes while the answer to a request lies with its caller
Elapse(steps) ==
    /\ ticks < MaxTicks
    /\ last # None
    /\ pending = None
    /\ \E d \in steps : clock' = clock + d
    /\ ticks' = ticks + 1
    /\ UNCHANGED <<agentRegistry, db, regCount, regLast, pending, last, mcp>>

\* a registration arrives in the meantime
Reregister(keyids, names, publicKeys, algorithms) ==
    /\ regCount < MaxRegistrations
    /\ last # None
    /\ pending = None
    /\ \E keyid \in keyids, name \in names, publicKey \in publicKeys,
          algorithm \in algorithms :
          Register([keyid |-> keyid, name |-> name, publicKey |-> publicKey,
                    algorithm |-> algorithm])
    /\ UNCHANGED <<db, clock, ticks, pending, last, mcp>>

\* how often the request with ghost signed has been sent again, and the
\* time, registry and verdict of its first verification
ReplayCount(rec) == IF rec.signed.by = "replay" THEN rec.signed.count ELSE 0

FirstOf(rec) ==
    IF rec.signed.by = "replay" THEN rec.signed.first
    ELSE [now |-> rec.now, registry |-> rec.registry, out |-> rec.out]

\* whoever saw the accepted request answered last sends the same method,
\* URL, Host, headers and body again
Replay ==
    /\ pending = None
    /\ last # None
    /\ last.out.next /\ last.out.stage = "crypto"
    /\ ReplayCount(last) < MaxReplays
    /\ Routed(last.req,
              [by |-> "replay", how |-> "none", count |-> ReplayCount(last) + 1,
               first |-> FirstOf(last)],
              Dispatch(last.req.method, PathOf(last.req.url)))
    /\ UNCHANGED <<clock, ticks, mcp>>

NextReplay ==
    \/ PostRegister({KeyIdPlain}, {NameAlice},
                    {generateKeypair(1).publicKey}, {Undefined})
    \/ ApiRequest({Call("GET", UrlProducts, NoBody)}, {KeyIdPlain}, {1},
                  {0}, {"none"})
    \/ Elapse({1, FreshnessSeconds, FreshnessSeconds + 1})
    \/ Reregister({KeyIdPlain}, {NameAlice},
                  {generateKeypair(NumKeys).publicKey}, {Undefined})
    \/ Replay
    \/ Resume
    \/ Return

SpecReplay == Init /\ [][NextReplay]_vars

\* ------------------------------------------------------------------------
\* A registry entry whose public key the library cannot use
\* ------------------------------------------------------------------------

\* publicKey values the registration handler takes although they are no
\* keys: no hex digits, and one byte too many
KeyNotHex == <<"z", "z">>
KeyTooLong == generateKeypair(1).publicKey \o <<"0", "0">>

NextInternal ==
    \/ PostRegister({KeyIdPlain}, {NameAlice},
                    {generateKeypair(1).publicKey, KeyNotHex, KeyTooLong},
                    {Undefined})
    \/ ApiRequest(GetProductsCalls, {KeyIdPlain}, {1}, {0},
                  {"none", "host", "badsig"})
    \/ Resume
    \/ Return

SpecInternal == Init /\ [][NextInternal]_vars

\* ------------------------------------------------------------------------
\* Registrations that arrive while a verification waits at its await
\* ------------------------------------------------------------------------

NameBob == <<"B", "o", "b">>

\* registrations of two keyids under two names and two keys, any of them
\* before a request is taken or while its verification is suspended
NextRace ==
    \/ PostRegister({KeyIdPlain, KeyIdUnknown}, {NameAlice, NameBob},
                    PublicKeys, {Undefined})
    \/ ApiRequest({Call("GET", UrlProducts, NoBody)}, {KeyIdPlain},
                  PrivateKeys, {0}, {"none"})
    \/ Resume
    \/ Return

SpecRace == Init /\ [][NextRace]_vars

\* ------------------------------------------------------------------------
\* Parameter strings of generateSignature and of clients that write theirs
\* another way
\* ------------------------------------------------------------------------

\* what a client may write after alg: nothing, a nonce, a tag without the
\* blank after the semicolon, a nonce and a second `sig1=`
Extras == {<<>>,
           RawParam(KeyNonce, Quoted(NonceAb)),
           <<";", "t", "a", "g", "=", "x">>,
           RawParam(KeyNonce, Quoted(NonceAb)) \o <<";", " ">> \o LitSig1Eq
               \o <<"1">>}

NextShared ==
    \/ PostRegister({KeyIdPlain}, {NameAlice},
                    {generateKeypair(1).publicKey}, {Undefined})
    \/ ApiRequest(GetProductsCalls, {KeyIdPlain}, {1}, {0}, {"none"})
    \/ RawRequest(GetProductsCalls, {1}, {CoverBoth}, {ToDec(clock)},
                  {ToDec(clock + FreshnessSeconds)}, {KeyIdPlain},
                  {LitEd25519, Undefined}, Extras, {"none", "nolabel"})
    \/ Resume
    \/ Return

SpecShared == Init /\ [][NextShared]_vars

\* ------------------------------------------------------------------------
\* Tags and nonces of the client's choice
\* ------------------------------------------------------------------------

KeyTag == <<"t", "a", "g">>
TagBrowser == <<"a", "g", "e", "n", "t", "-", "b", "r", "o", "w", "s", "e", "r",
                "-", "a", "u", "t", "h">>
TagPayer == <<"a", "g", "e", "n", "t", "-", "p", "a", "y", "e", "r", "-", "a",
              "u", "t", "h">>
TagOther == <<"x">>
\* a tag that holds a double quote and reads on like a parameter
TagQuote == <<"x", "\"", ";", " ", "e", "x", "p", "i", "r", "e", "s", "=", "1">>

\* an RFC 8941 string: a backslash before each double quote and backslash
RECURSIVE Escaped(_)
Escaped(value) ==
    IF value = <<>> THEN <<>>
    ELSE (IF Head(value) \in {"\"", "\\"} THEN <<"\\", Head(value)>>
          ELSE <<Head(value)>>) \o Escaped(Tail(value))

SfString(value) ==
    IF value = Undefined THEN Undefined
    ELSE <<"\"">> \o Escaped(value) \o <<"\"">>

Tags == {Undefined, TagBrowser, TagPayer, TagOther, TagQuote}
Nonces == {Undefined, NonceAb, TagOther}

\* `; nonce="..."; tag="..."`, each left out when the client has none
NonceAndTag(nonce, tag) ==
    RawParam(KeyNonce, SfString(nonce)) \o RawParam(KeyTag, SfString(tag))

TagCalls ==
    {Call("GET", UrlProducts, NoBody),
     Call("POST", UrlCart, NoBody),
     Call("POST", UrlCheckout,
          CheckoutBody([object |-> TRUE, text |-> AddressJson]))}

NextTag ==
    \/ PostRegister({KeyIdPlain}, {NameAlice},
                    {generateKeypair(1).publicKey}, {Undefined})
    \/ RawRequest(TagCalls, {1}, {CoverBoth}, {ToDec(clock)},
                  {ToDec(clock + FreshnessSeconds)}, {KeyIdPlain},
                  {LitEd25519},
                  {NonceAndTag(nonce, tag) : nonce \in Nonces, tag \in Tags},
                  {"none"})
    \/ Resume
    \/ Return

SpecTag == Init /\ [][NextTag]_vars

\* ------------------------------------------------------------------------
\* part_000: the MCP server -- main, initializeAgent and the tool calls.
\* A request of the server is in flight from its Submit until the server
\* reads the answer; signed.slot names the tool call it belongs to.
\* ------------------------------------------------------------------------

LitAgentDash == <<"a", "g", "e", "n", "t", "-">>
LitItems == <<"/", "i", "t", "e", "m", "s">>
LitCheckout == <<"/", "c", "h", "e", "c", "k", "o", "u", "t">>
LitNoActiveCart == <<"N", "o", " ", "a", "c", "t", "i", "v", "e", " ", "c", "a",
                     "r", "t">>

\* what the backend variables are but for the requests in flight
backend == <<agentRegistry, db, clock, ticks, regCount, regLast>>

\* `agent-${Date.now()}`
AgentKeyId(now) == LitAgentDash \o ToDec(now)

\* the keypair, key id and name initializeAgent makes on a first run
NewConfig(privateKey, now) ==
    [keyId |-> AgentKeyId(now), agentName |-> LitAgentName,
     privateKey |-> privateKey,
     publicKey |-> generateKeypair(privateKey).publicKey]

\* a variant of Main in which initializeAgent registers the key of the
\* config file again on every start
MainRegistersAgain(privateKeys) ==
    /\ ~mcp.running
    /\ mcp.starts < MaxStarts
    /\ IF mcp.file # None
       THEN mcp' = [mcp EXCEPT !.running = TRUE, !.boot = mcp.file,
                               !.starts = @ + 1]
       ELSE \E privateKey \in privateKeys :
               mcp' = [mcp EXCEPT !.running = TRUE,
                                  !.boot = NewConfig(privateKey, clock),
                                  !.starts = @ + 1]
    /\ UNCHANGED <<backend, pending, last>>

\* a variant of Main in which initializeAgent writes the config file
\* before it registers
MainSavesFirst(privateKeys) ==
    /\ ~mcp.running
    /\ mcp.starts < MaxStarts
    /\ IF mcp.file # None
       THEN mcp' = [mcp EXCEPT !.running = TRUE, !.agentConfig = mcp.file,
                               !.serving = TRUE, !.starts = @ + 1]
       ELSE \E privateKey \in privateKeys :
               mcp' = [mcp EXCEPT !.running = TRUE,
                                  !.boot = NewConfig(privateKey, clock),
                                  !.file = NewConfig(privateKey, clock),
                                  !.starts = @ + 1]
    /\ UNCHANGED <<backend, pending, last>>

\* main calls initializeAgent: with a config file it is read into
\* agentConfig and main goes on to server.connect; without one
\* initializeAgent makes a keypair and is about to post the registration
Main(privateKeys) ==
    /\ ~mcp.running
    /\ mcp.starts < MaxStarts
    /\ IF mcp.file # None
       THEN mcp' = [mcp EXCEPT !.running = TRUE, !.agentConfig = mcp.file,
                               !.serving = TRUE, !.starts = @ + 1]
       ELSE \E privateKey \in privateKeys :
               mcp' = [mcp EXCEPT !.running = TRUE,
                                  !.boot = NewConfig(privateKey, clock),
                                  !.starts = @ + 1]
    /\ UNCHANGED <<backend, pending, last>>

\* axios.post(`${BACKEND_URL}/api/registry/register`, {...}): no signature
\* headers
RegistrationRequest(config) ==
    [method |-> "POST", url |-> LitRegisterPath,
     body |-> [keyid |-> config.keyId, name |-> config.agentName,
               publicKey |-> config.publicKey, algorithm |-> LitEd25519],
     host |-> LitDefaultHost,
     sigInput |-> Undefined, sig |-> Undefined, sigAgent |-> Undefined]

\* initializeAgent posts the registration and waits for the answer
RegisterSend ==
    /\ mcp.boot # None
    /\ Submit(RegistrationRequest(mcp.boot),
              [by |-> "initializeAgent", how |-> "none",
               keyId |-> mcp.boot.keyId, privateKey |-> mcp.boot.privateKey])

\* the answer of the registration: on 2xx the config is set and written
\* and main goes on to server.connect; otherwise axios throws,
\* initializeAgent throws again and main's catch ends the process
RegisterReturn ==
    /\ mcp.boot # None
    /\ last # None
    /\ last.signed.by = "initializeAgent"
    /\ last' = None
    /\ mcp' = IF last.res.status = 200
              THEN [mcp EXCEPT !.boot = None, !.agentConfig = mcp.boot,
                               !.file = mcp.boot, !.serving = TRUE]
              ELSE McpDown(mcp.file, mcp.starts)
    /\ UNCHANGED <<backend, pending>>

\* the backend cannot be reached: axios throws without an answer
RegisterFails ==
    /\ mcp.boot # None
    /\ pending = None
    /\ last = None
    /\ mcp' = McpDown(mcp.file, mcp.starts)
    /\ UNCHANGED <<backend, pending, last>>

\* the process ends while no request of it is in flight; its variables
\* go, the config file stays
Stop ==
    /\ mcp.serving
    /\ pending = None
    /\ last = None
    /\ mcp' = McpDown(mcp.file, mcp.starts)
    /\ UNCHANGED <<backend, pending, last>>

\* somebody deletes .agent-config.json while the server is down
DeleteConfig ==
    /\ ~mcp.running
    /\ mcp.file # None
    /\ mcp' = [mcp EXCEPT !.file = None]
    /\ UNCHANGED <<backend, pending, last>>

\* the backend process starts again: agentRegistry is a Map in memory and
\* starts empty, the database is a file and stays
BackendRestart ==
    /\ pending = None
    /\ last = None
    /\ agentRegistry # <<>>
    /\ agentRegistry' = <<>>
    /\ UNCHANGED <<db, clock, ticks, regCount, regLast, pending, last, mcp>>

CartUrl(sessionId) == UrlCart \o <<"/">> \o sessionId
ItemsUrl(sessionId) == CartUrl(sessionId) \o LitItems
ItemUrl(sessionId, productId) == ItemsUrl(sessionId) \o <<"/">> \o ToDec(productId)
CheckoutUrl(sessionId) == CartUrl(sessionId) \o LitCheckout

Tools == {"search_products", "add_to_cart", "view_cart", "update_cart_item",
          "checkout"}

\* the arguments the tool calls of the model carry
ToolArgs ==
    [productId |-> 1, quantity |-> 1, newQuantity |-> 2,
     customerName |-> NameAlice, customerEmail |-> EmailAb,
     shippingAddress |-> [object |-> TRUE, text |-> AddressJson]]

\* apiRequest(method, path, data) as the handler of a tool calls it once
\* currentCartSessionId is known
ToolRequest(tool, args, sessionId) ==
    CASE tool = "search_products" -> Call("GET", UrlProducts, NoBody)
      [] tool = "add_to_cart" ->
            Call("POST", ItemsUrl(sessionId),
                 [productId |-> args.productId, quantity |-> args.quantity])
      [] tool = "view_cart" -> Call("GET", CartUrl(sessionId), NoBody)
      [] tool = "update_cart_item" ->
            Call("PUT", ItemUrl(sessionId, args.productId),
                 [quantity |-> args.newQuantity])
      [] tool = "checkout" ->
            Call("POST", CheckoutUrl(sessionId),
                 [customerName |-> args.customerName,
                  customerEmail |-> args.customerEmail,
                  shippingAddress |-> args.shippingAddress,
                  paymentMethod |-> LitPlaceholder])

\* what the text of a result says: the message of the error thrown in the
\* handler, the empty cart `{items: [], total: 0, ...}` view_cart makes
\* up, or the answer of the backend with its status
SaysError(message) == [message |-> message, emptyCart |-> FALSE, status |-> 0]
SaysEmptyCart == [message |-> <<>>, emptyCart |-> TRUE, status |-> 0]
SaysAnswer(status) == [message |-> <<>>, emptyCart |-> FALSE, status |-> status]

\* the result a tool call returns: content text (here what it says) and
\* isError; requests counts the requests the call sent
Result(slot, tool, isError, says, requests, number) ==
    [slot |-> slot, tool |-> tool, isError |-> isError, says |-> says,
     requests |-> requests, number |-> number]

\* a variant of Begun without the guards on currentCartSessionId
BegunUnguarded(slot, tool, args) ==
    IF mcp.currentCartSessionId = NullText /\ tool = "add_to_cart"
    THEN [mcp EXCEPT !.begun = @ + 1,
                     !.calls[slot] =
                         [tool |-> tool, pc |-> "create", sent |-> 0,
                          number |-> mcp.begun + 1,
                          began |-> mcp.currentCartSessionId,
                          call |-> Call("POST", UrlCart, NoBody)]]
    ELSE [mcp EXCEPT !.begun = @ + 1,
                     !.calls[slot] =
                         [tool |-> tool, pc |-> "request", sent |-> 0,
                          number |-> mcp.begun + 1,
                          began |-> mcp.currentCartSessionId,
                          call |-> ToolRequest(tool, args,
                                               mcp.currentCartSessionId)]]

\* the handler of a tool call up to its first await or to its result
\* without a request: the guards on currentCartSessionId
Begun(slot, tool, args) ==
    IF mcp.currentCartSessionId = NullText
    THEN IF tool \in {"update_cart_item", "checkout"}
         THEN [mcp EXCEPT !.begun = @ + 1,
                          !.done = Result(slot, tool, TRUE, SaysError(LitNoActiveCart), 0,
                                          mcp.begun + 1)]
         ELSE IF tool = "view_cart"
         THEN [mcp EXCEPT !.begun = @ + 1,
                          !.done = Result(slot, tool, FALSE, SaysEmptyCart, 0,
                                          mcp.begun + 1)]
         ELSE IF tool = "add_to_cart"
         THEN [mcp EXCEPT !.begun = @ + 1,
                          !.calls[slot] =
                              [tool |-> tool, pc |-> "create", sent |-> 0,
                               number |-> mcp.begun + 1,
                               began |-> mcp.currentCartSessionId,
                               call |-> Call("POST", UrlCart, NoBody)]]
         ELSE [mcp EXCEPT !.begun = @ + 1,
                          !.calls[slot] =
                              [tool |-> tool, pc |-> "request", sent |-> 0,
                               number |-> mcp.begun + 1,
                               began |-> mcp.currentCartSessionId,
                               call |-> ToolRequest(tool, args, <<>>)]]
    ELSE [mcp EXCEPT !.begun = @ + 1,
                     !.calls[slot] =
                         [tool |-> tool, pc |-> "request", sent |-> 0,
                          number |-> mcp.begun + 1,
                          began |-> mcp.currentCartSessionId,
                          call |-> ToolRequest(tool, args,
                                               mcp.currentCartSessionId)]]

\* a CallTool request arrives while the server serves
CallTool(tools) ==
    /\ mcp.serving
    /\ mcp.begun < MaxToolCalls
    /\ \E slot \in CallSlots, tool \in tools :
          /\ mcp.calls[slot] = None
          /\ mcp' = Begun(slot, tool, ToolArgs)
    /\ UNCHANGED <<backend, pending, last>>

\* apiRequest: sign with generateSignature under the config's key and send
SendCall(slot, call, config) ==
    Submit(SignedRequest(call,
               generateSignature(LitDefaultHost, call.url, config.keyId,
                                 config.privateKey, clock, NonceAb)),
           [by |-> "generateSignature", authority |-> LitDefaultHost,
            url |-> call.url, keyId |-> config.keyId,
            privateKey |-> config.privateKey,
            created |-> clock, expires |-> clock + FreshnessSeconds,
            alg |-> LitEd25519, how |-> "none", slot |-> slot,
            number |-> mcp.calls[slot].number])

ToolSend ==
    \E slot \in CallSlots :
        /\ mcp.calls[slot] # None
        /\ SendCall(slot, mcp.calls[slot].call, mcp.agentConfig)

\* the session id in the answer of POST /api/cart: that of the cart the
\* handler made
CreatedSessionId(d) == d.carts[Len(d.carts)].session_id

\* a variant of Returned in which any answer to a checkout resets
\* currentCartSessionId
ReturnedResetsAlways(slot, c, status, d) ==
    IF c.pc = "create" /\ status = 200
    THEN [mcp EXCEPT !.currentCartSessionId = CreatedSessionId(d),
                     !.calls[slot] =
                         [c EXCEPT !.pc = "request", !.sent = @ + 1,
                                   !.call = ToolRequest(c.tool, ToolArgs,
                                                CreatedSessionId(d))]]
    ELSE [mcp EXCEPT !.calls[slot] = None,
                     !.currentCartSessionId =
                         IF c.tool = "checkout" THEN NullText ELSE @,
                     !.done = Result(slot, c.tool, status # 200,
                                     SaysAnswer(status), c.sent + 1, c.number)]

\* apiRequest returns or throws and the handler runs to its next await or
\* to its result: after the cart creation currentCartSessionId is set and
\* the item request made with it; after a checkout it is set to null; an
\* answer that is not 2xx is thrown and becomes an error result
Returned(slot, c, status, d) ==
    IF status # 200
    THEN [mcp EXCEPT !.calls[slot] = None,
                     !.done = Result(slot, c.tool, TRUE, SaysAnswer(status), c.sent + 1,
                                     c.number)]
    ELSE IF c.pc = "create"
    THEN [mcp EXCEPT !.currentCartSessionId = CreatedSessionId(d),
                     !.calls[slot] =
                         [c EXCEPT !.pc = "request", !.sent = @ + 1,
                                   !.call = ToolRequest(c.tool, ToolArgs,
                                                CreatedSessionId(d))]]
    ELSE [mcp EXCEPT !.calls[slot] = None,
                     !.currentCartSessionId =
                         IF c.tool = "checkout" THEN NullText ELSE @,
                     !.done = Result(slot, c.tool, FALSE, SaysAnswer(status), c.sent + 1,
                                     c.number)]

ToolReturn ==
    /\ last # None
    /\ last.signed.by = "generateSignature"
    /\ last' = None
    /\ mcp' = Returned(last.signed.slot, mcp.calls[last.signed.slot],
                       last.res.status, db)
    /\ UNCHANGED <<backend, pending>>

\* one server on its first run and its tool calls, two at a time
NextClient ==
    \/ Main({1})
    \/ RegisterSend
    \/ RegisterReturn
    \/ CallTool(Tools)
    \/ ToolSend
    \/ Resume
    \/ ToolReturn

SpecClient == Init /\ [][NextClient]_vars

\* first runs that succeed or fail, the server stopped and started again,
\* the config file deleted
NextFirstRun ==
    \/ Main(PrivateKeys)
    \/ RegisterSend
    \/ RegisterReturn
    \/ RegisterFails
    \/ Stop
    \/ DeleteConfig
    \/ CallTool({"search_products"})
    \/ ToolSend
    \/ Resume
    \/ ToolReturn

SpecFirstRun == Init /\ [][NextFirstRun]_vars

\* a server with its config that is stopped and started again, and a
\* backend that is started again and so loses its registry
NextRestart ==
    \/ Main({1})
    \/ RegisterSend
    \/ RegisterReturn
    \/ Stop
    \/ BackendRestart
    \/ CallTool({"search_products"})
    \/ ToolSend
    \/ Resume
    \/ ToolReturn

SpecRestart == Init /\ [][NextRestart]_vars

\* ------------------------------------------------------------------------
\* Checkouts with every kind of body, and carts filled beyond the stock
\* ------------------------------------------------------------------------

AddressPlain == <<"1", " ", "M", "a", "i", "n", " ", "S", "t">>

\* shippingAddress as an object, as a string that holds JSON, as a string
\* that does not, and an empty one
CheckoutCalls ==
    {Call("POST", UrlCheckout, CheckoutBody(address)) :
        address \in {[object |-> TRUE, text |-> AddressJson],
                     [object |-> FALSE, text |-> AddressJson],
                     [object |-> FALSE, text |-> AddressPlain],
                     [object |-> FALSE, text |-> <<>>]}}

UrlCheckoutS2 == CheckoutUrl(<<"s", "2">>)

NextCheckout ==
    \/ PostRegister({KeyIdPlain}, {NameAlice}, {generateKeypair(1).publicKey},
                    {Undefined})
    \/ ApiRequest({Call("POST", UrlCart, NoBody),
                   Call("POST", UrlItems, [productId |-> 1, quantity |-> 1]),
                   Call("POST", UrlItems, [productId |-> 2, quantity |-> 1]),
                   Call("POST", UrlCheckoutS2,
                        CheckoutBody([object |-> TRUE, text |-> AddressJson]))}
                     \cup CheckoutCalls,
                  {KeyIdPlain}, {1}, {0}, {"none", "unsigned"})
    \/ Resume
    \/ Return

SpecCheckout == Init /\ [][NextCheckout]_vars

\* quantities a PUT may carry: none left, one the stock covers, one more
\* than the stock of product 1, and a negative one
UpdateQuantities == {0, 2, Products[1].stock + 1, -1}

NextStock ==
    \/ PostRegister({KeyIdPlain}, {NameAlice}, {generateKeypair(1).publicKey},
                    {Undefined})
    \/ ApiRequest({Call("POST", UrlCart, NoBody),
                   Call("POST", UrlItems, [productId |-> 1, quantity |-> 1]),
                   Call("POST", UrlItems,
                        [productId |-> 1, quantity |-> Products[1].stock + 1])}
                     \cup {Call("PUT", UrlItem1, [quantity |-> q]) :
                              q \in UpdateQuantities},
                  {KeyIdPlain}, {1}, {0}, {"none"})
    \/ Resume
    \/ Return

SpecStock == Init /\ [][NextStock]_vars

\* ------------------------------------------------------------------------
\* Properties
\* ------------------------------------------------------------------------

\* the answered request was signed by generateSignature and reached the
\* backend as it was sent
SentAsSigned ==
    /\ last # None
    /\ last.signed.by = "generateSignature"
    /\ last.signed.how = "none"

\* the registry the verifier read maps the signer's keyId to the public
\* half of the signer's key
RegistryHoldsSignerKey ==
    /\ last.signed.keyId \in DOMAIN last.registry
    /\ FromHex(last.registry[last.signed.keyId].publicKey)
          = getPublicKey(last.signed.privateKey)

WithinSignedWindow ==
    last.signed.created <= last.now /\ last.now <= last.signed.expires

Accepted == last.out.next /\ last.out.stage = "crypto"

\* C1: round trip -- headers from generateSignature, presented on a request
\* whose Host and URL are the signed ones, are accepted with
\* req.agent.id = keyId whenever the registry maps keyId to the matching
\* public key and the verifier's clock is within [created, expires].
C1_RoundTrip ==
    (SentAsSigned /\ RegistryHoldsSignerKey /\ WithinSignedWindow)
        => (Accepted /\ last.out.agent.id = last.signed.keyId)

\* C2: request binding -- a signature made for (authority, path) is
\* rejected as Invalid signature on a request whose observed Host or URL
\* differs, all earlier checks passing.
C2_RequestBinding ==
    (/\ last # None
     /\ last.signed.by = "generateSignature"
     /\ last.out.stage = "crypto"
     /\ (last.req.host # last.signed.authority \/ last.req.url # last.signed.url))
        => (~last.out.next /\ last.out.error = "Invalid signature")

\* the keyid the verifier reads from a Signature-Input that parses
ParsedKeyid(sigInput) == Param(parseSignatureInput(sigInput).pairs, KeyKeyid)

\* the request carries a Signature-Input that parses, and the keyid read
\* from it is not in the registry the verifier looked in
NamesUnknownKeyid ==
    /\ last # None
    /\ last.out.stage # "bypass"
    /\ ~Falsy(last.req.sigInput)
    /\ ~parseSignatureInput(last.req.sigInput).error
    /\ ParsedKeyid(last.req.sigInput) \notin DOMAIN last.registry

\* C3 as claimed: an unregistered keyid gives Unknown agent whatever the
\* Signature header holds.
C3_UnknownAlways ==
    NamesUnknownKeyid => last.out.error = "Unknown agent"

\* C3: when both headers are present and both parse, an unregistered keyid
\* gives Unknown agent, whatever the signature value and the timestamps.
C3_UnknownAgent ==
    (/\ NamesUnknownKeyid
     /\ ~Falsy(last.req.sig)
     /\ ~parseSignature(last.req.sig).error)
        => (~last.out.next /\ last.out.error = "Unknown agent")

\* an unregistered keyid on a request that is expired as well
C3_Witness ==
    /\ NamesUnknownKeyid
    /\ ~Falsy(last.req.sig)
    /\ last.signed.expires < last.now
    /\ last.out.error = "Unknown agent"

\* the registration handled last replaced the public key of its keyid by
\* another one, and the answered request was verified after it
Overwritten ==
    /\ regLast # None
    /\ regLast.status = 200
    /\ regLast.before # Undefined
    /\ regLast.before # regLast.publicKey
    /\ SentAsSigned
    /\ last.regSeq >= regLast.seq
    /\ last.signed.keyId = regLast.keyid
    /\ ParsedKeyid(last.req.sigInput) = regLast.keyid
    /\ WithinSignedWindow

SignerPublicKey == ToHex(getPublicKey(last.signed.privateKey))

\* C9: last write wins -- registering a keyid again with another public
\* key succeeds, and later requests are verified with the second key:
\* signed with its private half they are accepted, signed with the private
\* half of the first key they are rejected as Invalid signature.
C9_LastWriteWins ==
    /\ (regLast # None /\ ~Falsy(regLast.keyid) /\ ~Falsy(regLast.publicKey))
          => /\ regLast.status = 200
             /\ agentRegistry[regLast.keyid].publicKey = regLast.publicKey
    /\ (Overwritten /\ SignerPublicKey = regLast.publicKey)
          => (Accepted /\ last.out.agent.id = regLast.keyid)
    /\ (Overwritten /\ SignerPublicKey = regLast.before)
          => (~last.out.next /\ last.out.error = "Invalid signature")

C9_Witness ==
    /\ Overwritten
    /\ SignerPublicKey = regLast.publicKey
    /\ Accepted

\* a parameter of the Signature-Input the answered request carried, as the
\* verifier reads it
ParsedParam(key) == Param(parseSignatureInput(last.req.sigInput).pairs, key)

ParsedCreated == ParseInt(ParsedParam(KeyCreated)).n
ParsedExpires == ParseInt(ParsedParam(KeyExpires)).n

\* the answered request arrived as it was signed, under a keyid the
\* registry maps to the public half of the signing key
CorrectlySigned ==
    /\ last # None
    /\ last.signed.how = "none"
    /\ RegistryHoldsSignerKey

\* the alg the request declares is the algorithm on file for its keyid
AlgOnFile ==
    ParsedParam(KeyAlg) = last.registry[last.signed.keyId].algorithm

\* C4: algorithm confusion -- a request that declares an alg other than
\* the algorithm the registry stores for its keyid is rejected, even when
\* the signature verifies under the registered public key.
C4_AlgorithmMismatch ==
    (CorrectlySigned /\ ~AlgOnFile) => ~last.out.next

\* C5: expiry boundary -- with a registered key, a correct signature and
\* the other checks passing, expires = now - 1 is rejected as Signature
\* expired and expires = now is accepted.
C5_ExpiryBoundary ==
    (/\ CorrectlySigned
     /\ AlgOnFile
     /\ last.signed.created <= last.now + ClockSkewSeconds
     /\ last.signed.expires - last.signed.created <= MaxValiditySeconds)
        => /\ last.signed.expires = last.now - 1
                => (~last.out.next /\ last.out.error = "Signature expired")
           /\ last.signed.expires = last.now => Accepted

C5_Witness ==
    /\ CorrectlySigned
    /\ AlgOnFile
    /\ last.signed.expires = last.now
    /\ last.signed.created < last.now
    /\ Accepted

\* C6: clock-skew boundary -- with a registered key, a correct signature
\* and the other checks passing, created = now + 61 is rejected as
\* Signature from future and created = now + 60 is accepted.
C6_SkewBoundary ==
    (/\ CorrectlySigned
     /\ AlgOnFile
     /\ last.signed.expires >= last.now
     /\ last.signed.expires - last.signed.created <= MaxValiditySeconds)
        => /\ last.signed.created = last.now + ClockSkewSeconds + 1
                => (~last.out.next /\ last.out.error = "Signature from future")
           /\ last.signed.created = last.now + ClockSkewSeconds => Accepted

C6_Witness ==
    /\ CorrectlySigned
    /\ AlgOnFile
    /\ last.signed.created = last.now + ClockSkewSeconds
    /\ last.signed.expires > last.signed.created
    /\ Accepted

\* C7: validity-window cap -- with a registered key, a correct signature
\* and created and expires otherwise fresh, expires - created = 301 is
\* rejected as Signature validity too long and 300 is accepted.
C7_ValidityCap ==
    (/\ CorrectlySigned
     /\ AlgOnFile
     /\ last.signed.created <= last.now + ClockSkewSeconds
     /\ last.signed.expires >= last.now)
        => /\ last.signed.expires - last.signed.created = MaxValiditySeconds + 1
                => (/\ ~last.out.next
                    /\ last.out.error = "Signature validity too long")
           /\ last.signed.expires - last.signed.created = MaxValiditySeconds
                => Accepted

C7_Witness ==
    /\ CorrectlySigned
    /\ AlgOnFile
    /\ last.signed.expires - last.signed.created = MaxValiditySeconds
    /\ Accepted

\* C8: accepted-parameters invariant -- for every request the verifier
\* accepts, the parsed parameters satisfy expires > created,
\* expires - created <= 300, created <= now + 60 and expires >= now.
C8_AcceptedParams ==
    (last # None /\ Accepted)
        => /\ ParsedExpires > ParsedCreated
           /\ ParsedExpires - ParsedCreated <= MaxValiditySeconds
           /\ ParsedCreated <= last.now + ClockSkewSeconds
           /\ ParsedExpires >= last.now

\* the request answered in this step
AnsweredNow == last' # None /\ last' # last

\* the registry changed as one call of registerAgent changes it, made by
\* the registration handler
RegisteredNow ==
    /\ regCount' = regCount + 1
    /\ regLast'.status = 200
    /\ DOMAIN agentRegistry' = DOMAIN agentRegistry \cup {regLast'.keyid}
    /\ \A k \in DOMAIN agentRegistry :
          k # regLast'.keyid => agentRegistry'[k] = agentRegistry[k]

\* C10: unauthenticated requests can change nothing but the registry --
\* no database row changes and no product, cart, checkout or order handler
\* runs for a request unless verifySignature accepted it; the bypass of
\* verifySignature applies only to POST /api/registry/register, which the
\* registration route takes; and the registry changes only by a
\* registration through that route.
C10_OnlyRegistry ==
    [][/\ db' # db =>
            (pending # None /\ pending.out.next /\ pending.out.stage = "crypto")
       /\ (AnsweredNow /\ last'.res.handler
              /\ last'.route \notin {RouteRegister, RouteHealth})
            => (last'.out.next /\ last'.out.stage = "crypto")
       /\ (AnsweredNow
              /\ verifySignature(last'.req, last'.registry, last'.now).stage
                    = "bypass")
            => (/\ last'.req.method = "POST"
                /\ PathOf(last'.req.url) = LitRegisterPath
                /\ last'.route = RouteRegister)
       /\ agentRegistry' # agentRegistry => RegisteredNow]_vars

\* a checkout without signature headers on a cart that holds an item is
\* answered 401, no handler ran and no order was written
C10_Witness ==
    /\ last # None
    /\ last.route = RouteCheckout
    /\ Falsy(last.req.sigInput)
    /\ last.res.status = 401
    /\ ~last.res.handler
    /\ db.cart_items # {}
    /\ db.orders = <<>>

\* the answered request was signed by generateSignature under a keyid the
\* registry maps to the signer's public key, at the verifier's clock second,
\* and then had one character of its parameter string replaced
InputTampered ==
    /\ last # None
    /\ last.signed.how = "input"
    /\ last.req.sigInput # last.signed.sent.sigInput
    /\ RegistryHoldsSignerKey
    /\ WithinSignedWindow

\* the altered Signature-Input does not parse, or the verifier reads from it
\* the keyid, created and expires the signer wrote
ReadsAsSigned ==
    \/ parseSignatureInput(last.req.sigInput).error
    \/ /\ ParsedParam(KeyKeyid) = last.signed.keyId
       /\ ParseInt(ParsedParam(KeyCreated)) = [ok |-> TRUE, n |-> last.signed.created]
       /\ ParseInt(ParsedParam(KeyExpires)) = [ok |-> TRUE, n |-> last.signed.expires]

InvalidOrMalformed ==
    /\ ~last.out.next
    /\ last.out.error \in {"Invalid signature", "Signature verification failed"}

SignatureTampered ==
    /\ last # None
    /\ last.signed.how = "signature"
    /\ last.req.sig # last.signed.sent.sig
    /\ last.req.sigInput = last.signed.sent.sigInput
    /\ RegistryHoldsSignerKey
    /\ WithinSignedWindow

\* C12: signature tamper -- a Signature header whose value is any other
\* than the one the signer produced is rejected as Invalid signature or
\* with the parse error.
C12_SignatureTamper ==
    SignatureTampered => InvalidOrMalformed

\* what each stage of verifySignature finds wrong with a request, each
\* looked at on its own
MissesHeaders(req) == Falsy(req.sigInput) \/ Falsy(req.sig)

FailsParse(req) ==
    parseSignatureInput(req.sigInput).error \/ parseSignature(req.sig).error

FailsLookup(req, registry) == ParsedKeyid(req.sigInput) \notin DOMAIN registry

CreatedOf(req) ==
    ParseInt(Param(parseSignatureInput(req.sigInput).pairs, KeyCreated))

ExpiresOf(req) ==
    ParseInt(Param(parseSignatureInput(req.sigInput).pairs, KeyExpires))

NoTimestamp(req) ==
    \/ ~CreatedOf(req).ok \/ CreatedOf(req).n = 0
    \/ ~ExpiresOf(req).ok \/ ExpiresOf(req).n = 0

FromFuture(req, now) == CreatedOf(req).n > now + ClockSkewSeconds

Expired(req, now) == ExpiresOf(req).n < now

TooLong(req) == ExpiresOf(req).n - CreatedOf(req).n > MaxValiditySeconds

FailsCrypto(req, registry) ==
    ~verifyEd25519Signature(
        buildSignatureBase(req, parseSignatureInput(req.sigInput).components,
                           req.sigInput),
        parseSignature(req.sig).value,
        registry[ParsedKeyid(req.sigInput)].publicKey)

\* the reason of the earliest stage that fails, "" when none does
EarliestFailure(req, registry, now) ==
    IF MissesHeaders(req) THEN "Missing signature headers"
    ELSE IF FailsParse(req) THEN "Signature verification failed"
    ELSE IF FailsLookup(req, registry) THEN "Unknown agent"
    ELSE IF NoTimestamp(req) THEN "Invalid timestamp"
    ELSE IF FromFuture(req, now) THEN "Signature from future"
    ELSE IF Expired(req, now) THEN "Signature expired"
    ELSE IF TooLong(req) THEN "Signature validity too long"
    ELSE IF FailsCrypto(req, registry) THEN "Invalid signature"
    ELSE ""

Verified ==
    /\ last # None
    /\ Routes[last.route].verify
    /\ last.out.stage # "bypass"

\* registries and clock readings other than those the verifier had
OtherRegistries == {<<>>, agentRegistry, last.registry}
OtherTimes == {0, last.now + MaxValiditySeconds + 1}

\* C14: missing headers -- a request on a route behind verifySignature
\* that lacks Signature-Input or Signature, or carries one of them empty,
\* is answered 401 Missing signature headers, next() is not called and no
\* handler runs; the answer is given at the first stage and is the same
\* whatever the other header holds, the registry holds and the clock
\* shows.  A request with both headers is never answered that way.
C14_MissingHeaders ==
    Verified =>
        /\ MissesHeaders(last.req)
              => /\ last.out = Reject("headers", "Missing signature headers",
                        "Signature-Input and Signature headers are required")
                 /\ last.res = [status |-> 401, handler |-> FALSE]
                 /\ \A r \in OtherRegistries, t \in OtherTimes :
                        verifySignature(last.req, r, t) = last.out
        /\ ~MissesHeaders(last.req)
              => last.out.error # "Missing signature headers"

\* the Signature header was removed from a request whose Signature-Input
\* names an unknown keyid and carries no expires
C14_Witness ==
    /\ Verified
    /\ last.req.sig = Undefined
    /\ ~Falsy(last.req.sigInput)
    /\ ~parseSignatureInput(last.req.sigInput).error
    /\ FailsLookup(last.req, last.registry)
    /\ NoTimestamp(last.req)
    /\ last.out.error = "Missing signature headers"
    /\ last.res.status = 401

\* a value that was written and is not a run of decimal digits
NonNumeric(text) ==
    text # Undefined /\ \E i \in 1..Len(text) : text[i] \notin DigitCh

\* the answered request carries both headers, and its Signature-Input has
\* lost its label or its closing parenthesis or was written with a created
\* or expires that is not a number
MalformedInput ==
    /\ Verified
    /\ ~MissesHeaders(last.req)
    /\ last.signed.by = "raw"
    /\ \/ last.signed.how \in {"nolabel", "unbalanced"}
       \/ NonNumeric(last.signed.created)
       \/ NonNumeric(last.signed.expires)

\* C15: fail-closed parsing -- a Signature-Input without the sig1= label,
\* with unbalanced delimiters or with a non-numeric created or expires is
\* rejected with the parse error at the parse stage, before anything read
\* from it is used.
C15_FailClosed ==
    MalformedInput =>
        last.out = Reject("parse", "Signature verification failed",
                          "Invalid Signature-Input format")

RequiredKeys == {KeyCreated, KeyExpires, KeyKeyid, KeyAlg}

\* the Signature-Input of the answered request parses and carries no
\* parameter of one of the required names
OmitsRequired ==
    /\ Verified
    /\ ~MissesHeaders(last.req)
    /\ ~parseSignatureInput(last.req.sigInput).error
    /\ \E key \in RequiredKeys : ParsedParam(key) = Undefined

\* C16: required parameters -- a request whose Signature-Input omits
\* created, expires, keyid or alg is never accepted.
C16_RequiredParams ==
    OmitsRequired => ~last.out.next

\* the lines of the signature base the verifier built for the answered
\* request
BaseLines ==
    LET lines == SplitOn(buildSignatureBase(last.req,
                            parseSignatureInput(last.req.sigInput).components,
                            last.req.sigInput), "\n")
    IN  {lines[i] : i \in 1..Len(lines)}

\* C17: covered components -- the signature base of every accepted request
\* holds the @authority line and the @path line made from the Host and the
\* URL the verifier saw.
C17_Covered ==
    (Verified /\ Accepted)
        => /\ (LitAuthorityLine \o last.req.host) \in BaseLines
           /\ (LitPathLine \o last.req.url) \in BaseLines

\* C18: identity attachment -- on a route behind verifySignature, req.agent
\* is set exactly when the request is accepted, which is exactly when
\* next() is called and a handler runs; req.agent.id is then the keyid the
\* parameter string of the request carries, that keyid is registered, the
\* signature over the base ending in that parameter string verifies under
\* the public key of its entry, and req.agent.name is the name of that
\* entry.  A rejected request is answered 401 with req.agent unset.
C18_Identity ==
    Verified =>
        /\ (last.out.agent # NoAgent) <=> Accepted
        /\ last.out.next <=> Accepted
        /\ last.res.handler <=> Accepted
        /\ Accepted =>
              /\ last.out.agent.id = ParsedKeyid(last.req.sigInput)
              /\ last.out.agent.id \in DOMAIN last.registry
              /\ ~FailsCrypto(last.req, last.registry)
              /\ last.out.agent.name = last.registry[last.out.agent.id].name
        /\ ~Accepted =>
              /\ last.out.agent = NoAgent
              /\ last.res = [status |-> 401, handler |-> FALSE]

\* an accepted request with the agent of its keyid attached, and the
\* handler's answer
C18_Witness ==
    /\ Verified
    /\ Accepted
    /\ last.out.agent = [id |-> KeyIdPlain, name |-> NameAlice]
    /\ last.signed.keyId = KeyIdPlain
    /\ last.res = [status |-> 200, handler |-> TRUE]

\* values of the Signature-Agent header: absent, empty, what
\* generateSignature writes, another name, a registered keyid
AgentValues == {Undefined, <<>>, LitAgentName, AgentOther, KeyIdPlain}

\* C19: Signature-Agent is untrusted -- the request answered and the same
\* request with any other Signature-Agent header, or without one, get the
\* same verdict from verifySignature against the same registry and clock:
\* the same status and reason, and on acceptance the same req.agent.
C19_AgentUntrusted ==
    Verified =>
        \A v \in AgentValues :
            verifySignature([last.req EXCEPT !.sigAgent = v],
                            last.registry, last.now) = last.out

\* a request whose Signature-Agent header was replaced on the way is
\* accepted as the agent of its keyid
C19_Witness ==
    /\ Verified
    /\ last.signed.how = "agent"
    /\ last.req.sigAgent = AgentOther
    /\ last.signed.sent.sigAgent = LitAgentName
    /\ Accepted
    /\ last.out.agent = [id |-> KeyIdPlain, name |-> NameAlice]

\* the answered request is a copy of a request accepted before, and the
\* registry entry of its keyid is the one that first verification read
Replayed ==
    /\ last # None
    /\ last.signed.by = "replay"
    /\ ParsedKeyid(last.req.sigInput) \in DOMAIN last.registry
    /\ last.registry[ParsedKeyid(last.req.sigInput)]
          = last.signed.first.registry[ParsedKeyid(last.req.sigInput)]

C21_SingleUse ==
    (/\ last # None
     /\ last.signed.by = "replay"
     /\ last.signed.first.out.next
     /\ last.req.sigInput # Undefined)
        => ~last.out.next

\* the answered request carries the headers generateSignature made at
\* signer time last.signed.created
SignedByGenerate ==
    /\ last # None
    /\ last.signed.by = "generateSignature"
    /\ last.signed.how = "none"

\* the header carries created = the signer's clock and expires 60 s later
SixtySecondHeader ==
    /\ ParseInt(ParsedParam(KeyCreated)) = [ok |-> TRUE, n |-> last.signed.created]
    /\ ParseInt(ParsedParam(KeyExpires))
          = [ok |-> TRUE, n |-> last.signed.created + FreshnessSeconds]

\* C22 as claimed: a request signed at signer time t is answered Signature
\* expired by every verification at a clock beyond t + 60.
C22_AlwaysExpired ==
    SignedByGenerate =>
        /\ SixtySecondHeader
        /\ last.now > last.signed.created + FreshnessSeconds
              => (~last.out.next /\ last.out.error = "Signature expired")

\* C22: sixty-second lifetime -- the header generateSignature makes at
\* signer time t carries created = t and expires = t + 60; a verification
\* at a clock beyond t + 60 rejects the request, as Signature expired when
\* its keyid is registered (an unregistered keyid is answered Unknown
\* agent before the timestamps are looked at).
C22_Lifetime ==
    SignedByGenerate =>
        /\ SixtySecondHeader
        /\ last.now > last.signed.created + FreshnessSeconds
              => /\ ~last.out.next
                 /\ last.res = [status |-> 401, handler |-> FALSE]
                 /\ last.out.error =
                       IF ParsedKeyid(last.req.sigInput) \in DOMAIN last.registry
                       THEN "Signature expired" ELSE "Unknown agent"

\* a correctly signed request of a registered agent verified 61 s after
\* signing
C22_Witness ==
    /\ SignedByGenerate
    /\ RegistryHoldsSignerKey
    /\ last.now = last.signed.created + FreshnessSeconds + 1
    /\ last.out.error = "Signature expired"

\* C23: created age limit -- a request whose created is more than 60 s
\* before the verifier's clock is rejected, whatever its expires.
C23_CreatedAge ==
    (/\ Verified
     /\ ~MissesHeaders(last.req)
     /\ ~parseSignatureInput(last.req.sigInput).error
     /\ CreatedOf(last.req).ok
     /\ CreatedOf(last.req).n < last.now - ClockSkewSeconds)
        => ~last.out.next

\* what verifySignature did with a request: next() and no response of its
\* own, or a 401 with a reason and a message and no next()
OneOutcome(out) ==
    \/ /\ out.next
       /\ out.status = 0
       /\ out.error = ""
    \/ /\ ~out.next
       /\ out.status = 401
       /\ out.error # ""
       /\ out.message # ""

\* C24: total, exception-free outcome -- for every request that reaches
\* verifySignature, whatever its headers hold, verifySignature either calls
\* next() and sends nothing, so that the one response is the handler's, or
\* sends one 401 with a reason and a message and no handler runs; a throw
\* of a parser ends in such a 401 as well.
C24_TotalOutcome ==
    /\ (pending # None) => (OneOutcome(pending.out) /\ pending.out.stage = "crypto")
    /\ Verified =>
          /\ OneOutcome(last.out)
          /\ last.out = verifySignature(last.req, last.registry, last.now)
          /\ last.out.next => last.res.handler
          /\ ~last.out.next => last.res = [status |-> 401, handler |-> FALSE]
          /\ (~MissesHeaders(last.req) /\ FailsParse(last.req))
                => (/\ last.out.status = 401
                    /\ last.out.error = "Signature verification failed"
                    /\ last.out.message \in {"Invalid Signature-Input format",
                                             "Invalid Signature format"})

\* a Signature header without a value between its colons: parseSignature
\* throws, and the answer is a 401 with the message of the error
C24_Witness ==
    /\ Verified
    /\ last.req.sig = SigMalformed
    /\ ~parseSignatureInput(last.req.sigInput).error
    /\ last.res.status = 401
    /\ last.out.message = "Invalid Signature format"

\* the answered request got as far as the signature check, and there the
\* library threw because the public key on file for its keyid is no key
LibraryThrew ==
    /\ Verified
    /\ last.out.stage = "crypto"
    /\ ed25519Throws(FromHex(last.registry[ParsedKeyid(last.req.sigInput)].publicKey))

\* the reasons verifySignature gives for requests it does not authenticate
AuthenticationReasons ==
    {"Missing signature headers", "Signature verification failed",
     "Unknown agent", "Invalid timestamp", "Signature from future",
     "Signature expired", "Signature validity too long", "Invalid signature"}

\* C25: internal failures are distinguishable -- when the crypto library
\* throws on the registered key, the outcome is not one of the
\* authentication rejections: not their status and not one of their
\* reasons.
C25_InternalDistinct ==
    LibraryThrew =>
        /\ last.res.status # 401
        /\ last.out.error \notin AuthenticationReasons

\* what the caller sees of a rejection
Response(out) ==
    [status |-> out.status, error |-> out.error, message |-> out.message]

\* C26: no check oracle -- a request rejected by a timestamp check or by
\* the signature check gets the response it would get as the request of
\* an unknown agent (the same request against a registry without its
\* keyid), so that the response does not tell which check failed.
C26_NoOracle ==
    (/\ Verified
     /\ ~last.out.next
     /\ last.out.stage \in {"timestamp", "crypto"})
        => Response(last.out)
              = Response(verifySignature(last.req, <<>>, last.now))

\* C27: registered agents are immutable -- once the registry holds an
\* entry for a keyid, no step changes its name, public key, algorithm or
\* registration timestamp.
C27_Immutable ==
    [][\A k \in DOMAIN agentRegistry :
          /\ k \in DOMAIN agentRegistry'
          /\ agentRegistry'[k] = agentRegistry[k]]_vars

\* a registration was handled between the lookup of the answered request
\* and the end of its await
RegisteredWhileSuspended ==
    /\ Verified
    /\ last.out.stage = "crypto"
    /\ regLast # None
    /\ regLast.status = 200
    /\ regLast.seq > last.regSeq

\* the entry the verifier read at its lookup
EntryAtLookup == last.registry[ParsedKeyid(last.req.sigInput)]

C28_OtherKeyid ==
    /\ RegisteredWhileSuspended
    /\ Accepted
    /\ regLast.keyid # last.signed.keyId

\* the text after the leftmost `sig1=` of a Signature-Input header
AfterLabel(sigInput) ==
    From(sigInput, Min(Occurrences(sigInput, LitSig1Eq)) + Len(LitSig1Eq))

LastOf(seq) == seq[Len(seq)]

\* the lines of the text the signature of req was made over, as bytes: the
\* signature is the signer's key and the message
SignedLines(req) ==
    SplitOn(Tail(FromBase64(parseSignature(req.sig).value)), CharCode("\n"))

\* the lines of the base the verifier builds for req
RebuiltLines(req) ==
    SplitOn(buildSignatureBase(req,
                parseSignatureInput(req.sigInput).components, req.sigInput),
            "\n")

\* the request went through parsing, lookup and the timestamp checks, so
\* that the verifier built its base
BaseBuilt == Verified /\ last.out.stage = "crypto"

\* C29: shared parameter string -- the text after `sig1=` in the
\* Signature-Input generateSignature returns is, character for character,
\* the text of the `@signature-params` line it signed; and the
\* `@signature-params` line of the base the verifier builds is, character
\* for character, the text after `sig1=` in the Signature-Input it
\* received, so that a request is accepted only if its signature was made
\* over a last line that reads so.
C29_SharedParams ==
    /\ SignedByGenerate =>
          LastOf(SignedLines(last.req))
             = TextEncode(LitParamsLine \o AfterLabel(last.req.sigInput))
    /\ BaseBuilt =>
          /\ LastOf(RebuiltLines(last.req))
                = LitParamsLine \o AfterLabel(last.req.sigInput)
          /\ Accepted =>
                LastOf(SignedLines(last.req))
                   = TextEncode(LitParamsLine \o AfterLabel(last.req.sigInput))

\* a request signed by generateSignature was accepted
C29_Witness ==
    /\ SignedByGenerate
    /\ BaseBuilt
    /\ Accepted
    /\ last.signed.url = UrlProductsQuery

\* a request was accepted whose parameter string is not one that
\* generateSignature writes: no alg, and a tag without a blank before it
C29_OwnRendering ==
    /\ BaseBuilt
    /\ Accepted
    /\ last.signed.by = "raw"
    /\ last.signed.alg = Undefined
    /\ Occurrences(last.req.sigInput, <<";", "t", "a", "g">>) # {}

\* a step of verifySignature: a request is taken up to the await or to its
\* answer on a route other than the registration route, or the suspended
\* call resumes
VerifierStep ==
    \/ pending' # pending
    \/ AnsweredNow /\ last'.route # RouteRegister

\* C30: registry frame -- no step of verifySignature, whatever its
\* outcome, adds, changes or removes a registry entry; the registry
\* changes only in a step that is one call of registerAgent; and no step
\* removes an entry, so that a keyid that resolves once resolves ever
\* after.
C30_RegistryFrame ==
    [][/\ VerifierStep => agentRegistry' = agentRegistry
       /\ agentRegistry' # agentRegistry =>
             /\ RegisteredNow
             /\ agentRegistry' =
                   registerAgent(agentRegistry, regLast'.keyid,
                                 agentRegistry'[regLast'.keyid].name,
                                 regLast'.publicKey,
                                 agentRegistry'[regLast'.keyid].algorithm,
                                 clock)
       /\ DOMAIN agentRegistry \subseteq DOMAIN agentRegistry']_vars

\* a request of a registered keyid was rejected after both registrations
\* were handled, and the registry is what the verifier read and still
\* resolves the keyid
C30_Witness ==
    /\ Verified
    /\ ~Accepted
    /\ last.signed.keyId \in DOMAIN last.registry
    /\ last.signed.keyId \in DOMAIN agentRegistry
    /\ agentRegistry = last.registry
    /\ regCount = MaxRegistrations

\* the answered request was signed by a client over a parameter string of
\* its own, with created at the verifier's clock second and expires 60 s
\* later, under a keyid the registry maps to the public half of its key,
\* and reached a route behind verifySignature as it was sent
FreshAndRegistered ==
    /\ Verified
    /\ last.signed.by = "raw"
    /\ last.signed.how = "none"
    /\ last.signed.created = ToDec(last.now)
    /\ last.signed.expires = ToDec(last.now + FreshnessSeconds)
    /\ RegistryHoldsSignerKey

\* C31: no tag or nonce policy -- a correctly signed, fresh request from a
\* registered key is accepted on every route behind verifySignature,
\* checkout among them, whatever its tag and its nonce are: one of the two
\* action tags, none, or any other string.
C31_NoTagPolicy ==
    FreshAndRegistered => Accepted

\* the same for tags and nonces that hold no double quote
C31_Unquoted ==
    (FreshAndRegistered
        /\ Occurrences(last.req.sigInput, <<"\\">>) = {})
        => Accepted

\* a checkout signed with the browsing tag was accepted
C31_BrowserCheckout ==
    /\ FreshAndRegistered
    /\ Accepted
    /\ last.route = RouteCheckout
    /\ Occurrences(last.req.sigInput, KeyTag \o <<"=", "\"">> \o TagBrowser) # {}

\* a tool call begins in this step, in slot
BeginsIn(slot) ==
    /\ mcp'.begun = mcp.begun + 1
    /\ \/ mcp'.calls[slot] # None /\ mcp.calls[slot] = None
       \/ mcp'.done # mcp.done /\ mcp'.done.slot = slot

\* the handler of a tool call reads the answer to its request in this step
ReadsAnswer ==
    /\ last # None
    /\ last' = None
    /\ last.signed.by = "generateSignature"
    /\ mcp' # mcp

\* a tool call ends in this step with an error result
FailsNow == mcp'.done # mcp.done /\ mcp'.done.isError

C32_FailedCheckout ==
    /\ mcp.done # None
    /\ mcp.done.tool = "checkout"
    /\ mcp.done.isError
    /\ mcp.done.requests = 1
    /\ mcp.currentCartSessionId # NullText

GuardedTools == {"view_cart", "update_cart_item", "checkout"}

\* a tool call begins in this step while currentCartSessionId is null
BeginsWithoutCart ==
    /\ mcp'.begun = mcp.begun + 1
    /\ mcp.currentCartSessionId = NullText

\* C33: no-cart guards -- while currentCartSessionId is null, a call of
\* update_cart_item or checkout returns the error result `No active cart`,
\* a call of view_cart returns an empty cart with total 0, and in all
\* three no request is signed or sent to the backend and
\* currentCartSessionId stays null.
C33_NoCartGuards ==
    [][BeginsWithoutCart =>
          /\ \A slot \in CallSlots :
                mcp'.calls[slot] # mcp.calls[slot]
                   => mcp'.calls[slot].tool \notin GuardedTools
          /\ (mcp'.done # mcp.done) =>
                /\ mcp'.done.tool \in GuardedTools
                /\ mcp'.done.number = mcp'.begun
                /\ mcp'.done.tool \in {"update_cart_item", "checkout"}
                      => /\ mcp'.done.isError
                         /\ mcp'.done.says = SaysError(LitNoActiveCart)
                /\ mcp'.done.tool = "view_cart"
                      => /\ ~mcp'.done.isError
                         /\ mcp'.done.says = SaysEmptyCart
                /\ mcp'.done.requests = 0
                /\ mcp'.calls = mcp.calls
                /\ UNCHANGED <<pending, last, db, agentRegistry>>
                /\ mcp'.currentCartSessionId = NullText]_vars

\* a checkout was called without a cart and returned `No active cart`;
\* the backend has seen no request of a tool
C33_Witness ==
    /\ mcp.done # None
    /\ mcp.done.tool = "checkout"
    /\ mcp.done.isError
    /\ mcp.done.says = SaysError(LitNoActiveCart)
    /\ mcp.currentCartSessionId = NullText
    /\ db = EmptyDb

\* view_cart was called without a cart and returned the empty cart
C33_EmptyCart ==
    /\ mcp.done # None
    /\ mcp.done.tool = "view_cart"
    /\ mcp.done.says = SaysEmptyCart
    /\ mcp.currentCartSessionId = NullText

\* initializeAgent reads the 2xx answer to its registration in this step
RegistrationSucceeds ==
    /\ mcp.boot # None
    /\ last # None
    /\ last' = None
    /\ last.signed.by = "initializeAgent"
    /\ last.res.status = 200

\* a request leaves the server in this step: rec is what the backend took
SentNow(rec) == rec # None /\ rec # pending /\ rec # last

\* the request was signed with the key of the config file, which the
\* registry holds under the config's key id
SignedWithRegisteredKey(rec) ==
    /\ mcp.file # None
    /\ rec.signed.keyId = mcp.file.keyId
    /\ rec.signed.privateKey = mcp.file.privateKey
    /\ rec.signed.keyId \in DOMAIN rec.registry
    /\ rec.registry[rec.signed.keyId].publicKey
          = generateKeypair(rec.signed.privateKey).publicKey

\* C34: first-run ordering -- without a config file initializeAgent makes
\* a keypair, then posts its public half to the registration route, and
\* writes the config file only in the step that reads the 2xx answer; when
\* the registration fails the process ends with no config file written
\* and without serving; the server serves only with a config loaded or
\* saved, and every request it signs is signed with a key the registry
\* holds.
C34_FirstRun ==
    [][/\ mcp'.file # mcp.file /\ mcp'.file # None
            => /\ RegistrationSucceeds
               /\ mcp'.file = mcp.boot
               /\ mcp.file = None
               /\ mcp.boot.keyId \in DOMAIN agentRegistry
               /\ agentRegistry[mcp.boot.keyId].publicKey = mcp.boot.publicKey
       /\ (SentNow(last') /\ last'.signed.by = "initializeAgent")
            => /\ mcp.boot # None
               /\ mcp.file = None
               /\ last'.req.body.publicKey
                     = generateKeypair(mcp.boot.privateKey).publicKey
               /\ last'.req.body.keyid = mcp.boot.keyId
       /\ (mcp.boot # None /\ mcp'.boot = None /\ ~RegistrationSucceeds)
            => /\ mcp'.file = None
               /\ ~mcp'.running
               /\ ~mcp'.serving
               /\ mcp'.begun = 0
       /\ mcp'.serving => (mcp'.file # None /\ mcp'.agentConfig = mcp'.file)
       /\ mcp'.boot # None => ~mcp'.serving
       /\ (SentNow(last') /\ last'.signed.by = "generateSignature")
            => SignedWithRegisteredKey(last')
       /\ (SentNow(pending') /\ pending'.signed.by = "generateSignature")
            => SignedWithRegisteredKey(pending')]_vars

\* a first run whose registration failed: the process has ended, there is
\* no config file and the backend has registered nobody
C34_Witness ==
    /\ mcp = McpDown(None, 1)
    /\ regCount = 0
    /\ agentRegistry = <<>>

\* a first run that succeeded: the config is saved, its key registered
\* and a signed request of the server was accepted
C34_Saved ==
    /\ mcp.serving
    /\ mcp.file # None
    /\ last # None
    /\ last.signed.by = "generateSignature"
    /\ last.out.next
    /\ last.signed.keyId = mcp.file.keyId

\* the config file is there and the registry holds no entry for its key id
Forgotten == mcp.file # None /\ mcp.file.keyId \notin DOMAIN agentRegistry

\* the answer the server reads in this step, to a request it signed
ToolAnswer == last # None /\ last' = None /\ last.signed.by = "generateSignature"

\* C35: no re-registration -- once the config file exists no step sends a
\* registration and the registry does not change but by a backend restart;
\* so once the registry holds no entry for the saved key id it never holds
\* one again, and every signed request the server sends from then on is
\* rejected with 401 Unknown agent and returns an error result.
C35_NoReregistration ==
    [][/\ mcp.file # None =>
            /\ mcp'.file = mcp.file
            /\ mcp'.boot = None
            /\ regCount' = regCount
            /\ (agentRegistry' # agentRegistry => agentRegistry' = <<>>)
            /\ \A rec \in {last', pending'} :
                   SentNow(rec) =>
                      /\ rec.signed.by = "generateSignature"
                      /\ rec.route # RouteRegister
                      /\ rec.signed.keyId = mcp.file.keyId
       /\ Forgotten =>
            /\ mcp'.file.keyId \notin DOMAIN agentRegistry'
            /\ SentNow(last') =>
                  /\ ~last'.out.next
                  /\ last'.out.error = "Unknown agent"
                  /\ last'.res = [status |-> 401, handler |-> FALSE]
            /\ pending' = None
            /\ db' = db
            /\ ToolAnswer =>
                  /\ mcp'.done.isError
                  /\ mcp'.done.says = SaysAnswer(401)]_vars

\* after a backend restart and a restart of the server, which loaded its
\* config, a tool call was rejected as Unknown agent
C35_Witness ==
    /\ Forgotten
    /\ mcp.starts = 2
    /\ mcp.serving
    /\ mcp.done # None
    /\ mcp.done.says = SaysAnswer(401)
    /\ regCount = 1

\* no tool call is being handled and no request is in flight
Quiet ==
    /\ \A slot \in CallSlots : mcp.calls[slot] = None
    /\ pending = None
    /\ last = None

\* the session id of the cart a row of cart_items belongs to
SessionOf(cartId) == db.carts[cartId].session_id

\* C36: concurrent add_to_cart -- whatever add_to_cart calls were handled,
\* one after another or overlapping, before any checkout: at most one cart
\* was created on the backend, and every item added is in the cart that
\* currentCartSessionId names.
C36_OneCart ==
    (Quiet /\ db.orders = <<>>)
        => /\ Len(db.carts) <= 1
           /\ \A x \in db.cart_items :
                 SessionOf(x.cart_id) = mcp.currentCartSessionId

\* the cart of the request answered in this step, Null when its session
\* id names none
CartNow == cartQueries_getBySessionId(db, RouteParam(RouteCheckout,
               PathOf(last'.req.url), LitSessionId))

\* a checkout is answered in this step
CheckoutAnswered == AnsweredNow /\ last'.route = RouteCheckout

\* the rows of order_items of the order, as cart rows
OrderedItems(d, orderId) ==
    {[product_id |-> x.product_id, quantity |-> x.quantity,
      price |-> x.price_at_purchase] :
        x \in {y \in d.order_items : y.order_id = orderId}}

\* C37: checkout atomicity -- a checkout answered with an error leaves
\* orders, order_items and the cart's items as they were; orders and
\* order_items change, and a cart is emptied, only by a checkout answered
\* with success, whose order items are then the items the cart held and
\* whose total is the sum of price times quantity over them.
C37_Atomic ==
    [][/\ (CheckoutAnswered /\ last'.res.status # 200) => db' = db
       /\ (db'.orders # db.orders \/ db'.order_items # db.order_items)
            => /\ CheckoutAnswered
               /\ last'.res.status = 200
               /\ Len(db'.orders) = Len(db.orders) + 1
               /\ OrderedItems(db', Len(db'.orders))
                     = cartQueries_getItems(db, CartNow.id)
               /\ db'.orders[Len(db'.orders)].total
                     = Total(cartQueries_getItems(db, CartNow.id))
               /\ cartQueries_getItems(db', CartNow.id) = {}]_vars

\* C38: stock bound -- after any accepted add-item and update-item
\* requests, the quantity of each product in a cart is at least 1 and at
\* most the stock of the product.
C38_StockBound ==
    \A x \in db.cart_items :
        /\ x.quantity >= 1
        /\ x.quantity <= productQueries_getById(x.product_id).stock

====
